---- MODULE Spec2Model ----
(***************************************************************************)
(* Kudos bot (Slack Bolt app): the quick-send (/h5, /kudos with text) and  *)
(* form (kudos_modal) handlers, their rate limiter (userCooldowns,          *)
(* usersProcessing), the user directory cache and the kudos store, in the   *)
(* flat-file variant (src/app.js) and the relational variant                *)
(* (src/unnamed/part_000).                                                  *)
(*                                                                         *)
(* A handler invocation is a task; it advances from one await to the next  *)
(* in one atomic step (single-threaded event loop).  Every awaited         *)
(* collaborator call either returns or throws.                             *)
(***************************************************************************)
EXTENDS Integers, Sequences, FiniteSets, TLC

\* ------------------------------------------------------------ constants

COOLDOWN_MS == 3000
CACHE_DURATION == 300000

\* ------------------------------------------------------------ bounds

StartTime == 1000          \* Date.now() at process start (positive)
MaxTicks == 2              \* clock advances per execution
MaxInvocations == 2        \* handler invocations per execution
MaxOps == 3                \* store operations per execution
ThreeMonths == 600         \* the three months before now, in clock units
MaxCalls == 3              \* calls of getUserList per execution
MaxCacheTicks == 3         \* clock advances between calls of getUserList
MaxEvents == 3             \* length of the generated kudos histories
MaxInfoFailures == 1       \* failures of users.info for an existing user
MaxTextLen == 4            \* tokens in a command text handed to the parser
MaxRecipients == 4         \* users selected in a form

Users == {"U1", "U2"}
Channels == {"C1"}
Tasks == 1..MaxInvocations
OpIds == 1..MaxOps
CallIds == 1..MaxCalls
CacheTickSteps == {1, CACHE_DURATION - 1}
TickSteps == {1499, 1500}
Variants == {"file", "sql"}

\* ------------------------------------------------------------ text

\* A command text is a sequence of tokens: a platform mention <@ID> or
\* <@ID|name>, a plain mention @name, a word without '@', or whitespace.
MT(id) == [k |-> "M", v |-> id, sfx |-> FALSE]
MS(id) == [k |-> "M", v |-> id, sfx |-> TRUE]
PT(name) == [k |-> "P", v |-> name, sfx |-> FALSE]
WD(w) == [k |-> "W", v |-> w, sfx |-> FALSE]
SP == [k |-> "S", v |-> " ", sfx |-> FALSE]
TX(s) == [k |-> "T", v |-> s, sfx |-> FALSE]

\* result.members of users.list
Members ==
  << [id |-> "U1", name |-> "alice", display_name |-> "Al"],
     [id |-> "U2", name |-> "bob", display_name |-> "Bobby"] >>

\* the tokens of one kind, in order of appearance
SelectKind(text, kind) ==
  LET at == {i \in 1..Len(text) : text[i].k = kind}
      nth(j) == CHOOSE i \in at : Cardinality({m \in at : m <= i}) = j
  IN [j \in 1..Cardinality(at) |-> text[nth(j)]]

\* Array.from(text.matchAll(/<@([A-Z0-9]+)(\|[^>]+)?>/g))
ProperMatches(text) == SelectKind(text, "M")

\* Array.from(text.matchAll(/@(\w+)/g)), used only when no platform
\* mention matched
PlainMatches(text) == SelectKind(text, "P")

\* text.indexOf(s) + s.length
FirstMentionEnd(text, tok) ==
  LET at == {i \in 1..Len(text) : text[i] = tok}
  IN IF at = {} THEN 0 ELSE CHOOSE i \in at : \A j \in at : i <= j

\* text.lastIndexOf(s) + s.length, as a token position (0 when absent)
LastMentionEnd(text, tok) ==
  LET at == {i \in 1..Len(text) : text[i] = tok}
  IN IF at = {} THEN 0 ELSE CHOOSE i \in at : \A j \in at : j <= i

\* String.prototype.trim
Trim(text) ==
  LET solid == {i \in 1..Len(text) : text[i].k # "S"}
  IN IF solid = {} THEN <<>>
     ELSE SubSeq(text, CHOOSE i \in solid : \A j \in solid : i <= j,
                       CHOOSE i \in solid : \A j \in solid : j <= i)

\* text.substring(lastMentionEnd).trim()
MessageAfter(text, tok) ==
  Trim(SubSeq(text, LastMentionEnd(text, tok) + 1, Len(text)))

\* result.members.find(m => m.name === username ||
\*                          m.profile.display_name === username)
FindMember(members, username) ==
  LET hits == {i \in 1..Len(members) :
                 members[i].name = username
                 \/ members[i].display_name = username}
  IN IF hits = {} THEN <<>>
     ELSE <<members[CHOOSE i \in hits : \A j \in hits : i <= j]>>

\* the for-loop over plainMatches: whether every name was found, and the
\* mentions pushed before the loop ended (it returns at the first name that
\* is not found)
ResolvePlain(members, matches) ==
  LET missing == {i \in 1..Len(matches) :
                    FindMember(members, matches[i].v) = <<>>}
      stop == IF missing = {} THEN Len(matches) + 1
              ELSE CHOOSE i \in missing : \A j \in missing : i <= j
  IN [ ok |-> missing = {},
       recips |-> [i \in 1..(stop - 1) |->
                     MT(FindMember(members, matches[i].v)[1].id)] ]

\* Array.prototype.join(', ')
JoinComma(xs) ==
  [i \in 1..(IF Len(xs) = 0 THEN 0 ELSE 2 * Len(xs) - 1) |->
     IF i % 2 = 1 THEN xs[(i + 1) \div 2] ELSE TX(", ")]

\* "Format recipients" with " and " before the last of three or more
FormatRecipientsPlainAnd(recips) ==
  IF Len(recips) = 1 THEN <<recips[1]>>
  ELSE JoinComma(SubSeq(recips, 1, Len(recips) - 1))
         \o <<TX(" and "), recips[Len(recips)]>>

\* "Format recipients"
FormatRecipients(recips) ==
  IF Len(recips) = 1 THEN <<recips[1]>>
  ELSE IF Len(recips) = 2 THEN <<recips[1], TX(" and "), recips[2]>>
  ELSE JoinComma(SubSeq(recips, 1, Len(recips) - 1))
         \o <<TX(", and "), recips[Len(recips)]>>

\* id.replace(/<@|>/g, '') on a mention token: the delimiters go, a
\* display-name suffix stays
StripMention(tok) == [id |-> tok.v, sfx |-> tok.sfx]

\* a bare identifier as the form's selected_users gives it
BareId(id) == [id |-> id, sfx |-> FALSE]

\* ------------------------------------------------------------ inputs

CommandTexts ==
  { <<MT("U1"), SP, MS("U2"), SP, WD("great")>>,
    <<MT("U2")>>,
    <<WD("hello")>>,
    <<PT("bob"), SP, WD("nice")>>,
    <<PT("bob"), SP, PT("nobody"), SP, WD("oops")>> }

FormInputs ==
  { [recipients |-> <<"U2">>, message |-> <<WD("kudos")>>],
    [recipients |-> <<>>, message |-> <<WD("kudos")>>],
    [recipients |-> <<"U1", "U2">>, message |-> <<SP>>] }

\* the parsing in the try block of handleTextKudosCommand: which mention
\* form matched, the recipients of the platform form, the names of the plain
\* form, and the message after the last mention
ParseCommand(raw) ==
  LET text == Trim(raw)
      proper == ProperMatches(text)
      plain == PlainMatches(text)
  IN IF Len(proper) > 0
     THEN [ form |-> "proper", recips |-> proper, names |-> <<>>,
            msg |-> MessageAfter(text, proper[Len(proper)]) ]
     ELSE IF Len(plain) > 0
     THEN [ form |-> "plain", recips |-> <<>>, names |-> plain,
            msg |-> MessageAfter(text, plain[Len(plain)]) ]
     ELSE [ form |-> "none", recips |-> <<>>, names |-> <<>>, msg |-> <<>> ]

\* ParseCommand on the commands of the model
Parsed == [raw \in CommandTexts |-> ParseCommand(raw)]

\* the lookup loop on the commands of the model, with the member list that
\* users.list returns
Resolved == [raw \in CommandTexts |-> ResolvePlain(Members, Parsed[raw].names)]

\* ------------------------------------------------------------ state

VARIABLES
  variant,            \* which program runs: app.js ("file") or part_000 ("sql")
  clock,              \* Date.now()
  ticks,              \* clock advances so far
  usersProcessing,    \* Set of user ids mid-submission
  userCooldowns,      \* Map user id -> instant of the last admission
  userListCache,      \* <<>> (null) or <<result.members>>
  userListCacheTime,  \* 0 (null) or the instant recorded with the cache
  kudosHistoryFile,   \* content of kudos_history.json (sequence of entries)
  kudosTable,         \* rows of the kudos table
  posted,             \* the public messages present in the channels
  tasks,              \* handler invocations: position and locals
  admissions,         \* per user, the instants at which the user was locked
  ops,                \* store operations run on both backends side by side
  calls,              \* calls of getUserList
  AUTHORIZED_STATS_USERS,  \* the allow-list of /stats
  stats,              \* invocations of the /stats handler
  commandText,        \* a command text handed to the parser
  parseResult         \* <<>> or <<what the parser made of commandText>>

vars == << variant, clock, ticks, usersProcessing, userCooldowns,
           userListCache, userListCacheTime, kudosHistoryFile, kudosTable,
           posted, tasks, admissions, ops, calls, AUTHORIZED_STATS_USERS,
           stats, commandText, parseResult >>

limiter == << usersProcessing, userCooldowns, admissions >>
parts == << ops, calls, AUTHORIZED_STATS_USERS, stats, commandText,
            parseResult >>
cache == << userListCache, userListCacheTime >>
store == << kudosHistoryFile, kudosTable >>
time == << clock, ticks >>

\* a handler slot with no invocation in it
IdleTask ==
  [ pc |-> "idle", kind |-> "none", user |-> "U1", channel |-> "C1",
    text |-> <<>>, form |-> [recipients |-> <<>>, message |-> <<>>],
    recips |-> <<>>, msg |-> <<>>, now |-> 0, glNow |-> 0, history |-> <<>>,
    outcome |-> "none", invalid |-> "none", reply |-> "none", ctx |-> "none",
    secs |-> 0, replies |-> <<>>, posts |-> 0, announced |-> FALSE,
    appends |-> 0, failed |-> {} ]

\* the store operations, the directory calls, the /stats handler and the
\* parser run are not in use
PartsIdle ==
  /\ ops = << >>
  /\ calls = << >>
  /\ AUTHORIZED_STATS_USERS = << >>
  /\ stats = << >>
  /\ commandText = << >>
  /\ parseResult = << >>

Init ==
  /\ PartsIdle
  /\ variant \in Variants
  /\ clock = StartTime
  /\ ticks = 0
  /\ usersProcessing = {}
  /\ userCooldowns = [u \in {} |-> 0]
  /\ userListCache = << >>
  /\ userListCacheTime = 0
  /\ kudosHistoryFile = << >>
  /\ kudosTable = << >>
  /\ posted = {}
  /\ tasks = [t \in Tasks |-> IdleTask]
  /\ admissions = [u \in Users |-> << >>]

\* ------------------------------------------------------------ clock

\* time passes between two steps of the event loop
Tick ==
  /\ ticks < MaxTicks
  /\ \E d \in TickSteps : clock' = clock + d
  /\ ticks' = ticks + 1
  /\ UNCHANGED << variant, parts, limiter, cache, store, posted, tasks >>

\* ------------------------------------------------------------ arrivals

\* invocations are numbered in order of arrival
Free(t) ==
  /\ tasks[t].pc = "idle"
  /\ \A t2 \in Tasks : t2 < t => tasks[t2].pc # "idle"

\* handleKudosCommand with a non-empty text calls handleTextKudosCommand.
\* Nothing is read before `await ack()` returns, so an invocation enters the
\* model at that point, with the command it was given (one whose ack()
\* throws ends there and is not counted).
TextCommand(u, c, text, now) ==
  [IdleTask EXCEPT !.pc = "start", !.kind = "text", !.user = u,
                   !.channel = c, !.text = text, !.now = now]

\* app.view('kudos_modal'): a form submission, after `await ack()`
FormSubmission(u, c, form, now) ==
  [IdleTask EXCEPT !.pc = "start", !.kind = "modal", !.user = u,
                   !.channel = c, !.form = form, !.now = now]

\* ------------------------------------------------------------ rate limiter

\* the in-flight check left out
BusyNever(u) == FALSE

\* usersProcessing.has(userId)
Busy(u) == u \in usersProcessing

\* const lastUsed = userCooldowns.get(userId);
\* lastUsed && now - lastUsed < COOLDOWN_MS
CoolingDown(u, now) ==
  /\ u \in DOMAIN userCooldowns
  /\ userCooldowns[u] # 0
  /\ now - userCooldowns[u] < COOLDOWN_MS

\* COOLDOWN_MS - (now - lastUsed)
RemainingMs(u, now) == COOLDOWN_MS - (now - userCooldowns[u])

\* Math.floor in place of Math.ceil
FloorSeconds(ms) == ms \div 1000

\* Math.ceil(ms / 1000)
CeilSeconds(ms) == -((-ms) \div 1000)

\* const remainingSeconds = Math.ceil((COOLDOWN_MS - (now - lastUsed)) / 1000)
RemainingSeconds(u, now) == CeilSeconds(RemainingMs(u, now))

\* the add left out
LockedNot(set, u) == set

\* usersProcessing.add(userId)
Locked(set, u) == set \cup {u}

\* the set left out
CooledNot(map, u, now) == map

\* userCooldowns.set(userId, now)
Cooled(map, u, now) ==
  [x \in DOMAIN map \cup {u} |-> IF x = u THEN now ELSE map[x]]

\* usersProcessing.delete(userId)
Released(set, u) == set \ {u}

\* "Lock user", before the try block
Lock(u, now) ==
  /\ usersProcessing' = Locked(usersProcessing, u)
  /\ userCooldowns' = Cooled(userCooldowns, u, now)
  /\ admissions' = [admissions EXCEPT ![u] = Append(@, now)]

\* a handler without the finally block
ReleaseSkipped(u) == UNCHANGED limiter

\* finally { usersProcessing.delete(userId); }
Release(u) ==
  /\ usersProcessing' = Released(usersProcessing, u)
  /\ UNCHANGED << userCooldowns, admissions >>

\* the invocation returned (or threw): its locals are gone; what it did stays
\* on record
Finished(tk) ==
  [tk EXCEPT !.pc = "done", !.reply = "none", !.ctx = "none", !.now = 0,
             !.glNow = 0, !.history = <<>>, !.text = <<>>,
             !.form = IdleTask.form, !.recips = <<>>, !.msg = <<>>]

\* ------------------------------------------------------------ quick-send

\* await respond({...}) is pending: message kind and the place it is called
\* from ("top": before the try; "inner": in the try around the directory
\* lookup; "try": elsewhere in the outer try; "catch": in the outer catch)
Responding(tk, kind, ctx) == [tk EXCEPT !.pc = "respond", !.reply = kind,
                                        !.ctx = ctx]

\* "Validate input", then the public message is sent: where the handler
\* awaits next with these recipients and this message
Validate(tk, recips, msg) ==
  IF Len(recips) = 0
  THEN Responding([tk EXCEPT !.invalid = "noRecipients"], "noRecipients", "try")
  ELSE IF msg = <<>>
  THEN Responding([tk EXCEPT !.invalid = "noMessage", !.recips = recips],
                  "noMessage", "try")
  ELSE [tk EXCEPT !.pc = "say", !.recips = recips, !.msg = msg,
                  !.posts = @ + 1]

\* the loop skips a name that is not found instead of returning
AfterUserListPartial(tk) ==
  Validate(tk, Resolved[tk.text].recips, Parsed[tk.text].msg)

\* getUserList returned: the loop over plainMatches, then the message
AfterUserList(tk) ==
  IF ~Resolved[tk.text].ok
  THEN Responding([tk EXCEPT !.invalid = "notFound"], "notFound", "inner")
  ELSE Validate(tk, Resolved[tk.text].recips, Parsed[tk.text].msg)

\* a list as old as the window is still served
CacheFreshInclusive(now) ==
  /\ userListCache # <<>>
  /\ userListCacheTime # 0
  /\ now - userListCacheTime <= CACHE_DURATION

\* getUserList: the cached list is fresh
CacheFresh(now) ==
  /\ userListCache # <<>>
  /\ userListCacheTime # 0
  /\ now - userListCacheTime < CACHE_DURATION

\* the body of the try block up to its first await
AfterLock(tk) ==
  IF Parsed[tk.text].form = "proper"
  THEN Validate(tk, Parsed[tk.text].recips, Parsed[tk.text].msg)
  ELSE IF Parsed[tk.text].form = "plain"
  THEN IF CacheFresh(tk.now)
       THEN [tk EXCEPT !.pc = "userList"]
       ELSE [tk EXCEPT !.pc = "fetch", !.glNow = tk.now]
  ELSE Validate(tk, <<>>, <<>>)

\* the command arrives while its user is mid-submission
TextBusy(t) ==
  /\ Free(t)
  /\ \E u \in Users, c \in Channels, text \in CommandTexts :
       LET tk == TextCommand(u, c, text, clock)
       IN /\ Trim(text) # <<>>
          /\ Busy(tk.user)
          /\ tasks' = [tasks EXCEPT ![t] =
               Responding([tk EXCEPT !.outcome = "busy"], "busy", "top")]
  /\ UNCHANGED << variant, parts, time, limiter, cache, store, posted >>

\* the command arrives inside its user's cooldown
TextCooling(t) ==
  /\ Free(t)
  /\ \E u \in Users, c \in Channels, text \in CommandTexts :
       LET tk == TextCommand(u, c, text, clock)
       IN /\ Trim(text) # <<>>
          /\ ~Busy(tk.user)
          /\ CoolingDown(tk.user, tk.now)
          /\ tasks' = [tasks EXCEPT ![t] =
               Responding([tk EXCEPT !.outcome = "cooling",
                                     !.secs = RemainingSeconds(tk.user, tk.now)],
                          "cooling", "top")]
  /\ UNCHANGED << variant, parts, time, limiter, cache, store, posted >>

\* the command is admitted: lock, parse, run to the first await of the try
\* block
TextAdmit(t) ==
  /\ Free(t)
  /\ \E u \in Users, c \in Channels, text \in CommandTexts :
       LET tk == TextCommand(u, c, text, clock)
       IN /\ Trim(text) # <<>>
          /\ ~Busy(tk.user)
          /\ ~CoolingDown(tk.user, tk.now)
          /\ Lock(tk.user, tk.now)
          /\ tasks' = [tasks EXCEPT ![t] =
               AfterLock([tk EXCEPT !.outcome = "admitted"])]
  /\ UNCHANGED << variant, parts, time, cache, store, posted >>

\* getUserList returned the cached list
UserListCached(t) ==
  /\ tasks[t].pc = "userList"
  /\ tasks' = [tasks EXCEPT ![t] = AfterUserList(@)]
  /\ UNCHANGED << variant, parts, time, limiter, cache, store, posted >>

\* client.users.list() returned: the cache is filled with the instant read
\* before the call
FetchOk(t) ==
  /\ tasks[t].pc = "fetch"
  /\ userListCache' = <<Members>>
  /\ userListCacheTime' = tasks[t].glNow
  /\ tasks' = [tasks EXCEPT ![t] = AfterUserList([@ EXCEPT !.glNow = 0])]
  /\ UNCHANGED << variant, parts, time, limiter, store, posted >>

\* the lookup error is dropped and the handler goes on with no recipient
FetchThrowIgnored(t) ==
  /\ tasks[t].pc = "fetch"
  /\ tasks' = [tasks EXCEPT ![t] =
       Validate([@ EXCEPT !.glNow = 0, !.failed = @ \cup {"directory"}],
                <<>>, <<>>)]
  /\ UNCHANGED << variant, parts, time, limiter, cache, store, posted >>

\* client.users.list() threw: the inner catch replies
FetchThrow(t) ==
  /\ tasks[t].pc = "fetch"
  /\ tasks' = [tasks EXCEPT ![t] =
       Responding([@ EXCEPT !.glNow = 0, !.failed = @ \cup {"directory"}],
                  "lookupError", "try")]
  /\ UNCHANGED << variant, parts, time, limiter, cache, store, posted >>

\* a private reply as the requester's client sees it
Reply(tk, ok) == [msg |-> tk.reply, secs |-> tk.secs, ok |-> ok]

\* the rejections return from inside the try block, so the finally runs
\* after every reply
RespondOkReleases(t) ==
  /\ tasks[t].pc = "respond"
  /\ tasks' = [tasks EXCEPT ![t] =
       Finished([@ EXCEPT !.replies = Append(@, Reply(tasks[t], TRUE))])]
  /\ Release(tasks[t].user)
  /\ UNCHANGED << variant, parts, time, cache, store, posted >>

\* await respond(...) returned
RespondOk(t) ==
  /\ tasks[t].pc = "respond"
  /\ tasks' = [tasks EXCEPT ![t] =
       Finished([@ EXCEPT !.replies = Append(@, Reply(tasks[t], TRUE))])]
  /\ IF tasks[t].ctx = "top"
     THEN UNCHANGED limiter
     ELSE Release(tasks[t].user)
  /\ UNCHANGED << variant, parts, time, cache, store, posted >>

\* await respond(...) threw: before the try the error leaves the handler; in
\* the lookup's try the inner catch replies; elsewhere in the try the outer
\* catch replies; in the outer catch the error leaves through finally
RespondThrow(t) ==
  /\ tasks[t].pc = "respond"
  /\ LET tk == [tasks[t] EXCEPT !.replies = Append(@, Reply(tasks[t], FALSE)),
                                !.failed = @ \cup {"reply"}]
     IN CASE tk.ctx = "top" ->
               /\ tasks' = [tasks EXCEPT ![t] = Finished(tk)]
               /\ UNCHANGED limiter
          [] tk.ctx = "inner" ->
               /\ tasks' = [tasks EXCEPT ![t] =
                              Responding(tk, "lookupError", "try")]
               /\ UNCHANGED limiter
          [] tk.ctx = "try" ->
               /\ tasks' = [tasks EXCEPT ![t] =
                              Responding(tk, "generic", "catch")]
               /\ UNCHANGED limiter
          [] OTHER ->
               /\ tasks' = [tasks EXCEPT ![t] = Finished(tk)]
               /\ Release(tk.user)
  /\ UNCHANGED << variant, parts, time, cache, store, posted >>

\* the public message of a submission
Announcement(tk) ==
  [ from |-> tk.user, channel |-> tk.channel,
    recipients |-> FormatRecipients(tk.recips), message |-> tk.msg ]

\* recordKudos is called: it awaits the file read or the INSERT
EnterRecordKudos(tk) ==
  [tk EXCEPT !.pc = IF variant = "file" THEN "load" ELSE "insert",
             !.appends = @ + 1]

\* await say(...) returned: the announcement is public; recordKudos starts
SayOk(t) ==
  /\ tasks[t].pc = "say"
  /\ posted' = posted \cup {Announcement(tasks[t])}
  /\ tasks' = [tasks EXCEPT ![t] =
       EnterRecordKudos([@ EXCEPT !.announced = TRUE])]
  /\ UNCHANGED << variant, parts, time, limiter, cache, store >>

\* the error of say(...) is dropped and recordKudos is called all the same
SayThrowRecords(t) ==
  /\ tasks[t].pc = "say"
  /\ tasks' = [tasks EXCEPT ![t] =
       EnterRecordKudos([@ EXCEPT !.failed = @ \cup {"post"}])]
  /\ UNCHANGED << variant, parts, time, limiter, cache, store, posted >>

\* await say(...) threw: the outer catch replies
SayThrow(t) ==
  /\ tasks[t].pc = "say"
  /\ tasks' = [tasks EXCEPT ![t] =
       Responding([@ EXCEPT !.failed = @ \cup {"post"}], "generic", "catch")]
  /\ UNCHANGED << variant, parts, time, limiter, cache, store, posted >>

\* ------------------------------------------------------------ store

\* the recipient ids handed to recordKudos: the quick-send strips the
\* mention delimiters, the form passes selected_users
RecipientIds(tk) ==
  IF tk.kind = "text"
  THEN [i \in 1..Len(tk.recips) |-> StripMention(tk.recips[i])]
  ELSE [i \in 1..Len(tk.form.recipients) |-> BareId(tk.form.recipients[i])]

\* the entry / row of one kudos
Entry(tk, now) ==
  [ timestamp |-> now, sender_id |-> tk.user,
    recipient_ids |-> RecipientIds(tk), message |-> tk.msg,
    channel_id |-> tk.channel ]

\* loadKudosHistory returned the parsed file: the entry is pushed and
\* saveKudosHistory awaits the write
LoadOk(t) ==
  /\ tasks[t].pc = "load"
  /\ tasks' = [tasks EXCEPT ![t].pc = "save",
                            ![t].history =
                               Append(kudosHistoryFile, Entry(tasks[t], clock))]
  /\ UNCHANGED << variant, parts, time, limiter, cache, store, posted >>

\* the read or JSON.parse threw: loadKudosHistory returns []
LoadThrow(t) ==
  /\ tasks[t].pc = "load"
  /\ tasks' = [tasks EXCEPT ![t].pc = "save",
                            ![t].history = <<Entry(tasks[t], clock)>>]
  /\ UNCHANGED << variant, parts, time, limiter, cache, store, posted >>

\* fs.writeFile returned: the file holds this invocation's history; the
\* handler's finally runs
SaveOk(t) ==
  /\ tasks[t].pc = "save"
  /\ kudosHistoryFile' = tasks[t].history
  /\ tasks' = [tasks EXCEPT ![t] = Finished(@)]
  /\ Release(tasks[t].user)
  /\ UNCHANGED << variant, parts, time, cache, kudosTable, posted >>

\* saveKudosHistory without its try/catch: the error reaches the handler's
\* catch
SaveThrowPropagates(t) ==
  /\ tasks[t].pc = "save"
  /\ tasks' = [tasks EXCEPT ![t] =
       Responding([@ EXCEPT !.failed = @ \cup {"store"}, !.history = <<>>],
                  "generic", "catch")]
  /\ UNCHANGED << variant, parts, time, limiter, cache, store, posted >>

\* fs.writeFile threw: saveKudosHistory logs it; the handler's finally runs
SaveThrow(t) ==
  /\ tasks[t].pc = "save"
  /\ tasks' = [tasks EXCEPT ![t] = Finished([@ EXCEPT !.failed = @ \cup {"store"}])]
  /\ Release(tasks[t].user)
  /\ UNCHANGED << variant, parts, time, cache, store, posted >>

\* the INSERT returned (timestamp DEFAULT CURRENT_TIMESTAMP)
InsertOk(t) ==
  /\ tasks[t].pc = "insert"
  /\ kudosTable' = Append(kudosTable, Entry(tasks[t], clock))
  /\ tasks' = [tasks EXCEPT ![t] = Finished(@)]
  /\ Release(tasks[t].user)
  /\ UNCHANGED << variant, parts, time, cache, kudosHistoryFile, posted >>

\* the INSERT threw: recordKudos logs it
InsertThrow(t) ==
  /\ tasks[t].pc = "insert"
  /\ tasks' = [tasks EXCEPT ![t] = Finished([@ EXCEPT !.failed = @ \cup {"store"}])]
  /\ Release(tasks[t].user)
  /\ UNCHANGED << variant, parts, time, cache, store, posted >>

\* ------------------------------------------------------------ form

\* !recipients || recipients.length === 0
NoRecipients(form) == Len(form.recipients) = 0

\* !message || message.trim() === ''
NoMessage(form) == form.message = <<>> \/ Trim(form.message) = <<>>

\* the submission arrives while the user is mid-submission: logged only
ModalBusy(t) ==
  /\ Free(t)
  /\ \E u \in Users, c \in Channels, form \in FormInputs :
       LET tk == FormSubmission(u, c, form, clock)
       IN /\ Busy(tk.user)
          /\ tasks' = [tasks EXCEPT ![t] =
               Finished([tk EXCEPT !.outcome = "busy"])]
  /\ UNCHANGED << variant, parts, time, limiter, cache, store, posted >>

\* userCooldowns.set moved above the cooldown check: a dropped submission
\* restarts the cooldown
ModalCoolingRestarts(t) ==
  /\ Free(t)
  /\ \E u \in Users, c \in Channels, form \in FormInputs :
       LET tk == FormSubmission(u, c, form, clock)
       IN /\ ~Busy(tk.user)
          /\ CoolingDown(tk.user, tk.now)
          /\ userCooldowns' = Cooled(userCooldowns, tk.user, tk.now)
          /\ tasks' = [tasks EXCEPT ![t] =
               Finished([tk EXCEPT !.outcome = "cooling"])]
  /\ UNCHANGED << variant, parts, time, usersProcessing, admissions, cache, store,
                  posted >>

\* the submission arrives inside the cooldown: logged only
ModalCooling(t) ==
  /\ Free(t)
  /\ \E u \in Users, c \in Channels, form \in FormInputs :
       LET tk == FormSubmission(u, c, form, clock)
       IN /\ ~Busy(tk.user)
          /\ CoolingDown(tk.user, tk.now)
          /\ tasks' = [tasks EXCEPT ![t] =
               Finished([tk EXCEPT !.outcome = "cooling"])]
  /\ UNCHANGED << variant, parts, time, limiter, cache, store, posted >>

\* admitted, but the form has no recipient or no message: logged, and the
\* finally runs before any await
ModalInvalid(t) ==
  /\ Free(t)
  /\ \E u \in Users, c \in Channels, form \in FormInputs :
       LET tk == FormSubmission(u, c, form, clock)
       IN /\ ~Busy(tk.user)
          /\ ~CoolingDown(tk.user, tk.now)
          /\ NoRecipients(tk.form) \/ NoMessage(tk.form)
          /\ usersProcessing' =
               Released(Locked(usersProcessing, tk.user), tk.user)
          /\ userCooldowns' = Cooled(userCooldowns, tk.user, tk.now)
          /\ admissions' = [admissions EXCEPT ![tk.user] = Append(@, tk.now)]
          /\ tasks' = [tasks EXCEPT ![t] =
               Finished([tk EXCEPT !.outcome = "admitted",
                                   !.invalid = IF NoRecipients(tk.form)
                                               THEN "noRecipients"
                                               ELSE "noMessage"])]
  /\ UNCHANGED << variant, parts, time, cache, store, posted >>

\* admitted with a valid form: lock, format, await chat.postMessage
ModalAdmit(t) ==
  /\ Free(t)
  /\ \E u \in Users, c \in Channels, form \in FormInputs :
       LET tk == FormSubmission(u, c, form, clock)
       IN /\ ~Busy(tk.user)
          /\ ~CoolingDown(tk.user, tk.now)
          /\ ~(NoRecipients(tk.form) \/ NoMessage(tk.form))
          /\ Lock(tk.user, tk.now)
          /\ tasks' = [tasks EXCEPT ![t] =
               [tk EXCEPT !.pc = "post", !.outcome = "admitted",
                          !.recips = [i \in 1..Len(tk.form.recipients) |->
                                        MT(tk.form.recipients[i])],
                          !.msg = tk.form.message, !.posts = @ + 1]]
  /\ UNCHANGED << variant, parts, time, cache, store, posted >>

\* chat.postMessage returned: recordKudos starts
PostOk(t) ==
  /\ tasks[t].pc = "post"
  /\ posted' = posted \cup {Announcement(tasks[t])}
  /\ tasks' = [tasks EXCEPT ![t] =
       EnterRecordKudos([@ EXCEPT !.announced = TRUE])]
  /\ UNCHANGED << variant, parts, time, limiter, cache, store >>

\* chat.postMessage threw and the post is issued again
PostThrowRetries(t) ==
  /\ tasks[t].pc = "post"
  /\ tasks[t].posts < 3
  /\ tasks' = [tasks EXCEPT ![t] =
       [@ EXCEPT !.failed = @ \cup {"post"}, !.posts = @ + 1]]
  /\ UNCHANGED << variant, parts, time, limiter, cache, store, posted >>

\* chat.postMessage threw: the catch logs it and the finally runs
PostThrow(t) ==
  /\ tasks[t].pc = "post"
  /\ tasks' = [tasks EXCEPT ![t] = Finished([@ EXCEPT !.failed = @ \cup {"post"}])]
  /\ Release(tasks[t].user)
  /\ UNCHANGED << variant, parts, time, cache, store, posted >>

\* ------------------------------------------------------------ specification

Next ==
  \/ Tick
  \/ \E t \in Tasks : TextBusy(t)
  \/ \E t \in Tasks : TextCooling(t)
  \/ \E t \in Tasks : TextAdmit(t)
  \/ \E t \in Tasks : UserListCached(t)
  \/ \E t \in Tasks : FetchOk(t)
  \/ \E t \in Tasks : FetchThrow(t)
  \/ \E t \in Tasks : RespondOk(t)
  \/ \E t \in Tasks : RespondThrow(t)
  \/ \E t \in Tasks : SayOk(t)
  \/ \E t \in Tasks : SayThrow(t)
  \/ \E t \in Tasks : LoadOk(t)
  \/ \E t \in Tasks : LoadThrow(t)
  \/ \E t \in Tasks : SaveOk(t)
  \/ \E t \in Tasks : SaveThrow(t)
  \/ \E t \in Tasks : InsertOk(t)
  \/ \E t \in Tasks : InsertThrow(t)
  \/ \E t \in Tasks : ModalBusy(t)
  \/ \E t \in Tasks : ModalCooling(t)
  \/ \E t \in Tasks : ModalInvalid(t)
  \/ \E t \in Tasks : ModalAdmit(t)
  \/ \E t \in Tasks : PostOk(t)
  \/ \E t \in Tasks : PostThrow(t)

Spec == Init /\ [][Next]_vars

\* an awaited collaborator call of invocation t returns or throws
Returns(t) ==
  \/ UserListCached(t) \/ FetchOk(t) \/ FetchThrow(t)
  \/ RespondOk(t) \/ RespondThrow(t)
  \/ SayOk(t) \/ SayThrow(t)
  \/ PostOk(t) \/ PostThrow(t)
  \/ LoadOk(t) \/ LoadThrow(t) \/ SaveOk(t) \/ SaveThrow(t)
  \/ InsertOk(t) \/ InsertThrow(t)

\* every awaited call eventually returns or throws
FairSpec == Spec /\ \A t \in Tasks : WF_vars(Returns(t))

\* ------------------------------------------------------------ properties

\* invocation t was admitted and has not yet run its finally
Active(t) ==
  /\ tasks[t].outcome = "admitted"
  /\ tasks[t].pc \notin {"idle", "done"}

ActiveFor(u) == {t \in Tasks : Active(t) /\ tasks[t].user = u}

\* invocation t reaches the rate-limit check in this step
Arrives(t) == tasks[t].pc = "idle" /\ tasks'[t].pc # "idle"

\* the instant of u's latest admission
LastAdmission(u) == admissions[u][Len(admissions[u])]

\* the private replies of t that reached the requester
Delivered(t) == {i \in 1..Len(tasks[t].replies) : tasks[t].replies[i].ok}

\* C1: a user is in usersProcessing exactly while one admitted invocation of
\* that user, from either entry point, is between its lock and its release;
\* no user has two such invocations at once.
C1_InFlightExact ==
  \A u \in Users :
    /\ (u \in usersProcessing) <=> (ActiveFor(u) # {})
    /\ Cardinality(ActiveFor(u)) <= 1

\* a quick-send and a form submission of one user met: one holds the lock,
\* the other was turned away
C1_Witness ==
  \E t1, t2 \in Tasks :
    /\ Active(t1) /\ tasks[t1].user \in usersProcessing
    /\ tasks[t2].user = tasks[t1].user
    /\ tasks[t2].kind # tasks[t1].kind
    /\ tasks[t2].outcome = "busy"

\* C2: an invocation that reaches the rate-limit check while an admitted
\* invocation of the same user has not released is rejected as busy (the
\* quick-send replies "busy"), whatever the time since the last admission.
C2_BusyWhileInFlight ==
  [][\A t \in Tasks :
       (Arrives(t) /\ ActiveFor(tasks'[t].user) # {}) =>
          /\ tasks'[t].outcome = "busy"
          /\ tasks'[t].kind = "text" =>
               (tasks'[t].pc = "respond" /\ tasks'[t].reply = "busy")
          /\ tasks'[t].kind = "modal" => tasks'[t].pc = "done"
          /\ UNCHANGED limiter]_vars

\* a quick-send is being told "busy" 3000 ms or more after its user's last
\* admission
C2_Witness ==
  \E t1, t2 \in Tasks :
    /\ Active(t1)
    /\ tasks[t2].user = tasks[t1].user
    /\ tasks[t2].pc = "respond" /\ tasks[t2].reply = "busy"
    /\ tasks[t2].now - LastAdmission(tasks[t2].user) >= COOLDOWN_MS

\* C3: a request of a released user d ms after the user's last admission is,
\* for 0 <= d < 3000, rejected as cooling down with 3000 - d ms remaining
\* (between 1 and 3000), shown rounded up to whole seconds (1, 2 or 3); for
\* d >= 3000 it is admitted.
C3_Cooldown ==
  [][\A t \in Tasks :
       LET u == tasks'[t].user
           d == clock - LastAdmission(u)
       IN (Arrives(t) /\ u \notin usersProcessing /\ admissions[u] # <<>>) =>
            /\ (0 <= d /\ d < COOLDOWN_MS) =>
                 /\ tasks'[t].outcome = "cooling"
                 /\ RemainingMs(u, clock) = COOLDOWN_MS - d
                 /\ RemainingMs(u, clock) \in 1..3000
                 /\ tasks'[t].kind = "text" =>
                      /\ tasks'[t].reply = "cooling"
                      /\ tasks'[t].secs \in {1, 2, 3}
                      /\ tasks'[t].secs * 1000 >= COOLDOWN_MS - d
                      /\ (tasks'[t].secs - 1) * 1000 < COOLDOWN_MS - d
            /\ d >= COOLDOWN_MS => tasks'[t].outcome = "admitted"]_vars

\* a quick-send was told to wait 1 second, another 2 or 3
C3_Witness ==
  \E t \in Tasks :
    /\ tasks[t].pc = "respond" /\ tasks[t].reply = "cooling"
    /\ tasks[t].secs = 1
    /\ COOLDOWN_MS - (tasks[t].now - LastAdmission(tasks[t].user)) \in {1, 2}

\* C4: any two admissions of one user are at least 3000 ms apart.
C4_AdmissionsApart ==
  \A u \in Users :
    \A i, j \in 1..Len(admissions[u]) :
      i < j => admissions[u][j] - admissions[u][i] >= COOLDOWN_MS

\* one user was admitted twice, once by each entry point
C4_Witness ==
  \E t1, t2 \in Tasks :
    /\ t1 # t2
    /\ tasks[t1].user = tasks[t2].user
    /\ tasks[t1].outcome = "admitted" /\ tasks[t2].outcome = "admitted"
    /\ tasks[t1].kind = "text" /\ tasks[t2].kind = "modal"
    /\ Len(admissions[tasks[t1].user]) = 2

\* C5: every admitted invocation releases its user, whichever way it ends,
\* when every awaited call returns or throws.
C5_EventuallyReleased ==
  \A t \in Tasks : Active(t) ~> (tasks[t].pc = "done" /\ ActiveFor(tasks[t].user) = {}
                                  /\ tasks[t].user \notin usersProcessing)

\* an admitted quick-send ended through the outer catch whose own reply
\* failed, and its user is free
C5_Witness ==
  \E t \in Tasks :
    /\ tasks[t].pc = "done" /\ tasks[t].outcome = "admitted"
    /\ {"post", "reply"} \subseteq tasks[t].failed
    /\ tasks[t].user \notin usersProcessing

\* every entry the store holds or is about to be written
StoredEntries ==
  {kudosHistoryFile[i] : i \in 1..Len(kudosHistoryFile)}
    \cup {kudosTable[i] : i \in 1..Len(kudosTable)}
    \cup UNION {{tasks[t].history[i] : i \in 1..Len(tasks[t].history)} :
                t \in Tasks}

\* the mention token a stored recipient id came from
MentionOf(r) == [k |-> "M", v |-> r.id, sfx |-> r.sfx]

\* C6: a submission that fails validation (no recipient, blank message, a
\* name that is not found after others were) is never announced and never
\* stored; the quick-send answers it with a private error, and what is
\* announced or stored always has a recipient and a non-blank message.
C6_InvalidNoEffect ==
  /\ \A t \in Tasks :
       tasks[t].invalid # "none" =>
         /\ tasks[t].posts = 0 /\ ~tasks[t].announced /\ tasks[t].appends = 0
         /\ tasks[t].recips = <<>> \/ tasks[t].invalid = "noMessage"
         /\ tasks[t].kind = "modal" =>
              (tasks[t].pc = "done" /\ tasks[t].replies = <<>>)
         /\ tasks[t].kind = "text" =>
              \/ tasks[t].pc = "respond"
              \/ /\ tasks[t].pc = "done"
                 /\ tasks[t].replies # <<>>
                 /\ tasks[t].replies[1].msg = tasks[t].invalid
                 /\ "reply" \notin tasks[t].failed =>
                      tasks[t].replies =
                        <<[msg |-> tasks[t].invalid, secs |-> 0, ok |-> TRUE]>>
  /\ \A a \in posted :
       /\ a.recipients # <<>> /\ Trim(a.message) # <<>>
       /\ a.message # <<WD("oops")>>
  /\ \A e \in StoredEntries :
       /\ e.recipient_ids # <<>> /\ Trim(e.message) # <<>>
       /\ e.message # <<WD("oops")>>

\* a quick-send that named a known and an unknown user ended with the
\* "not found" reply, while another submission was announced
C6_Witness ==
  \E t \in Tasks :
    /\ tasks[t].pc = "done" /\ tasks[t].kind = "text"
    /\ tasks[t].invalid = "notFound"
    /\ tasks[t].replies = <<[msg |-> "notFound", secs |-> 0, ok |-> TRUE]>>
    /\ posted # {}

\* C7: recordKudos is called only after the announcement was posted, never
\* after a failed post, and every stored entry has its announcement in the
\* channel.
C7_AppendAfterAnnounce ==
  /\ \A t \in Tasks :
       /\ tasks[t].appends > 0 => tasks[t].announced
       /\ tasks[t].pc \in {"load", "save", "insert"} => tasks[t].announced
       /\ "post" \in tasks[t].failed =>
            (tasks[t].appends = 0 /\ ~tasks[t].announced)
  /\ \A e \in StoredEntries :
       \E a \in posted :
         /\ a.from = e.sender_id /\ a.channel = e.channel_id
         /\ a.message = e.message
         /\ a.recipients =
              FormatRecipients([i \in 1..Len(e.recipient_ids) |->
                                  MentionOf(e.recipient_ids[i])])

\* an announced quick-send is stored, and another submission's post failed
C7_Witness ==
  \E t1, t2 \in Tasks :
    /\ tasks[t1].pc = "done" /\ tasks[t1].kind = "text"
    /\ tasks[t1].announced /\ tasks[t1].appends = 1
    /\ "store" \notin tasks[t1].failed
    /\ Len(kudosHistoryFile) + Len(kudosTable) = 1
    /\ "post" \in tasks[t2].failed

\* C8: a failed store write is swallowed: the invocation ends with its
\* announcement in the channel, no private reply and no other failure, and
\* its user is released.
C8_StoreFailureSwallowed ==
  \A t \in Tasks :
    "store" \in tasks[t].failed =>
      /\ tasks[t].pc = "done"
      /\ tasks[t].announced /\ tasks[t].posts = 1
      /\ \E a \in posted : a.from = tasks[t].user
      /\ tasks[t].replies = <<>>
      /\ tasks[t].failed = {"store"}
      /\ tasks[t].user \in usersProcessing => ActiveFor(tasks[t].user) # {}

\* a quick-send whose store write failed has ended; nothing is stored
C8_Witness ==
  \E t \in Tasks :
    /\ tasks[t].kind = "text" /\ "store" \in tasks[t].failed
    /\ posted # {}
    /\ kudosHistoryFile = <<>> /\ kudosTable = <<>>
    /\ usersProcessing = {}

\* C9 as stated: after a failed directory fetch or a failed post, in either
\* flow, nothing is stored, the requester has received exactly one private
\* error (no private reply having failed), and the user is released.
C9_Original ==
  \A t \in Tasks :
    (/\ tasks[t].pc = "done" /\ "reply" \notin tasks[t].failed
     /\ tasks[t].failed \cap {"directory", "post"} # {}) =>
      /\ tasks[t].appends = 0
      /\ Cardinality(Delivered(t)) = 1
      /\ tasks[t].user \in usersProcessing => ActiveFor(tasks[t].user) # {}

\* C9 (amended): after a failed directory fetch or a failed post nothing is
\* stored and the user is released.  The quick-send then sends a generic
\* private error: exactly one reaches the requester unless a private reply
\* itself fails, and never more than one.  The form flow sends no message.
C9_FailureAborts ==
  \A t \in Tasks :
    tasks[t].failed \cap {"directory", "post"} # {} =>
      /\ tasks[t].appends = 0 /\ ~tasks[t].announced
      /\ tasks[t].pc \in {"respond", "done"}
      /\ tasks[t].pc = "done" =>
           (tasks[t].user \in usersProcessing => ActiveFor(tasks[t].user) # {})
      /\ tasks[t].kind = "modal" =>
           (tasks[t].pc = "done" /\ tasks[t].replies = <<>>)
      /\ tasks[t].kind = "text" =>
           /\ \A i \in 1..Len(tasks[t].replies) :
                tasks[t].replies[i].msg \in {"lookupError", "generic"}
           /\ Cardinality(Delivered(t)) <= 1
           /\ tasks[t].pc = "respond" =>
                tasks[t].reply \in {"lookupError", "generic"}
           /\ tasks[t].pc = "done" =>
                /\ tasks[t].replies # <<>>
                /\ "reply" \notin tasks[t].failed =>
                     Cardinality(Delivered(t)) = 1

\* a quick-send whose directory fetch failed got the lookup error, and a
\* form submission whose post failed ended without a message
C9_Witness ==
  \E t1, t2 \in Tasks :
    /\ tasks[t1].pc = "done" /\ tasks[t1].kind = "text"
    /\ tasks[t1].failed = {"directory"}
    /\ tasks[t1].replies = <<[msg |-> "lookupError", secs |-> 0, ok |-> TRUE]>>
    /\ tasks[t2].pc = "done" /\ tasks[t2].kind = "modal"
    /\ tasks[t2].failed = {"post"}

\* u is inside the cooldown at the current instant
InCooldown(u) ==
  /\ admissions[u] # <<>>
  /\ clock - LastAdmission(u) < COOLDOWN_MS

\* C10: a form submission that arrives while its user is mid-submission or
\* inside the cooldown ends at once: no announcement, no store write, no
\* reply, and the rate limiter is left as it was.
C10_FormDropped ==
  [][\A t \in Tasks :
       (/\ Arrives(t) /\ tasks'[t].kind = "modal"
        /\ tasks'[t].user \in usersProcessing \/ InCooldown(tasks'[t].user)) =>
          /\ tasks'[t].pc = "done"
          /\ tasks'[t].outcome \in {"busy", "cooling"}
          /\ tasks'[t].replies = <<>>
          /\ tasks'[t].posts = 0 /\ tasks'[t].appends = 0
          /\ UNCHANGED << limiter, store, posted >>]_vars

\* a form submission was dropped inside the cooldown of a released user
C10_Witness ==
  \E t \in Tasks :
    /\ tasks[t].pc = "done" /\ tasks[t].kind = "modal"
    /\ tasks[t].outcome = "cooling"
    /\ tasks[t].user \notin usersProcessing

\* ------------------------------------------------------------ store
\* recordKudos and the store read of /stats, on the flat file (src/app.js)
\* and on the kudos table (src/unnamed/part_000) side by side: every
\* operation is issued to both, with the same arguments and the same
\* injected failure, and each backend takes its own awaited steps.

\* what fails in an operation: nothing, its read, or its write
StoreFaults == {"none", "read", "write"}

\* a store operation that has not been issued
IdleOp ==
  [ kind |-> "none", fpc |-> "idle", spc |-> "idle", fault |-> "none",
    args |-> [ sender_id |-> "U1", recipient_ids |-> <<>>, message |-> <<>>,
               channel_id |-> "C1" ],
    history |-> <<>>, seen |-> {}, fileRows |-> {}, sqlRows |-> {} ]

\* const entry = { timestamp: new Date().toISOString(), sender_id, ... } and
\* the row of INSERT INTO kudos (sender_id, recipient_ids, message,
\* channel_id) with timestamp DEFAULT CURRENT_TIMESTAMP
EntryOf(args, now) ==
  [ timestamp |-> now, sender_id |-> args.sender_id,
    recipient_ids |-> args.recipient_ids, message |-> args.message,
    channel_id |-> args.channel_id ]

\* entries recorded before the process started: one older than three
\* months, one exactly three months old
OldEntry ==
  EntryOf([ sender_id |-> "U2", recipient_ids |-> <<BareId("U1")>>,
            message |-> <<WD("old")>>, channel_id |-> "C1" ],
          StartTime - ThreeMonths - 1)

EdgeEntry ==
  EntryOf([ sender_id |-> "U1", recipient_ids |-> <<BareId("U2")>>,
            message |-> <<WD("edge")>>, channel_id |-> "C1" ],
          StartTime - ThreeMonths)

InitialHistories == { << >>, <<OldEntry>>, <<OldEntry, EdgeEntry>> }

\* threeMonthsAgo.setMonth(threeMonthsAgo.getMonth() - 3) and
\* NOW() - INTERVAL '3 months': the calendar arithmetic is taken as a window
\* of fixed length
ThreeMonthsAgo(now) == now - ThreeMonths

\* history.filter(entry => new Date(entry.timestamp) >= threeMonthsAgo)
RecentKudos(history, now) ==
  SelectSeq(history, LAMBDA e : e.timestamp >= ThreeMonthsAgo(now))

\* SELECT sender_id, recipient_ids, timestamp: the columns of a row
Row(e) ==
  [ sender_id |-> e.sender_id, recipient_ids |-> e.recipient_ids,
    timestamp |-> e.timestamp ]

\* the elements of a sequence
Range(xs) == {xs[i] : i \in 1..Len(xs)}

\* getKudosStats: the rows WHERE timestamp >= NOW() - INTERVAL '3 months'
\* (as a set: ORDER BY timestamp DESC is applied by KudosStats below)
KudosStatsRows(table, now) ==
  {Row(e) : e \in {x \in Range(table) : x.timestamp >= ThreeMonthsAgo(now)}}

\* operations are numbered in order of issue
OpFree(o) ==
  /\ ops[o].kind = "none"
  /\ \A o2 \in OpIds : o2 < o => ops[o2].kind # "none"

\* operation o has been issued and is not finished on both backends
Running(o) ==
  /\ ops[o].kind # "none"
  /\ ops[o].fpc # "done" \/ ops[o].spc # "done"

\* recordKudos runs inside its sender's lock: one per user at a time
Appending(u) ==
  \E o \in OpIds : /\ ops[o].kind = "append" /\ Running(o)
                   /\ ops[o].args.sender_id = u

\* the arguments of the recordKudos call of operation o, sent by u
KudosArgs(o, u) ==
  [ sender_id |-> u,
    recipient_ids |-> <<BareId(CHOOSE v \in Users : v # u)>>,
    message |-> <<WD("kudos"), SP, WD(ToString(o))>>,
    channel_id |-> "C1" ]

\* the entries of the recordKudos calls that have returned on both backends
\* without a failed write
CompletedAppends ==
  { EntryOf(ops[o].args, clock) :
      o \in {x \in OpIds : /\ ops[x].kind = "append" /\ ~Running(x)
                           /\ ops[x].fault # "write"} }

\* recordKudos(senderId, recipientIds, message, channelId) is called
StartAppend(o) ==
  /\ OpFree(o)
  /\ \E u \in Users, fault \in StoreFaults :
       /\ ~Appending(u)
       /\ ops' = [ops EXCEPT ![o] =
            [IdleOp EXCEPT !.kind = "append", !.fpc = "load",
                           !.spc = "insert", !.fault = fault,
                           !.args = KudosArgs(o, u)]]
  /\ UNCHANGED << variant, time, limiter, cache, store, posted, tasks, calls,
                  AUTHORIZED_STATS_USERS, stats, commandText, parseResult >>

\* loadKudosHistory returned the file's array: the entry is pushed
FileLoadOk(o) ==
  /\ ops[o].kind = "append" /\ ops[o].fpc = "load"
  /\ ops[o].fault # "read"
  /\ ops' = [ops EXCEPT ![o].fpc = "save",
                        ![o].history =
                           Append(kudosHistoryFile,
                                  EntryOf(ops[o].args, clock))]
  /\ UNCHANGED << variant, time, limiter, cache, store, posted, tasks, calls,
                  AUTHORIZED_STATS_USERS, stats, commandText, parseResult >>

\* the read or JSON.parse threw: loadKudosHistory returned []
FileLoadThrow(o) ==
  /\ ops[o].kind = "append" /\ ops[o].fpc = "load"
  /\ ops[o].fault = "read"
  /\ ops' = [ops EXCEPT ![o].fpc = "save",
                        ![o].history = <<EntryOf(ops[o].args, clock)>>]
  /\ UNCHANGED << variant, time, limiter, cache, store, posted, tasks, calls,
                  AUTHORIZED_STATS_USERS, stats, commandText, parseResult >>

\* fs.writeFile returned
FileSaveOk(o) ==
  /\ ops[o].fpc = "save"
  /\ ops[o].fault # "write"
  /\ kudosHistoryFile' = ops[o].history
  /\ ops' = [ops EXCEPT ![o].fpc = "done", ![o].history = <<>>]
  /\ UNCHANGED << variant, time, limiter, cache, kudosTable, posted, tasks,
                  calls, AUTHORIZED_STATS_USERS, stats, commandText,
                  parseResult >>

\* fs.writeFile threw: logged
FileSaveThrow(o) ==
  /\ ops[o].fpc = "save"
  /\ ops[o].fault = "write"
  /\ ops' = [ops EXCEPT ![o].fpc = "done", ![o].history = <<>>]
  /\ UNCHANGED << variant, time, limiter, cache, store, posted, tasks, calls,
                  AUTHORIZED_STATS_USERS, stats, commandText, parseResult >>

\* the INSERT returned
SqlInsertOk(o) ==
  /\ ops[o].spc = "insert"
  /\ ops[o].fault # "write"
  /\ kudosTable' = Append(kudosTable, EntryOf(ops[o].args, clock))
  /\ ops' = [ops EXCEPT ![o].spc = "done"]
  /\ UNCHANGED << variant, time, limiter, cache, kudosHistoryFile, posted,
                  tasks, calls, AUTHORIZED_STATS_USERS, stats, commandText,
                  parseResult >>

\* the INSERT threw: logged
SqlInsertThrow(o) ==
  /\ ops[o].spc = "insert"
  /\ ops[o].fault = "write"
  /\ ops' = [ops EXCEPT ![o].spc = "done"]
  /\ UNCHANGED << variant, time, limiter, cache, store, posted, tasks, calls,
                  AUTHORIZED_STATS_USERS, stats, commandText, parseResult >>

\* /stats reads the store: loadKudosHistory, getKudosStats(3)
StartQuery(o) ==
  /\ OpFree(o)
  /\ \E fault \in {"none", "read"} :
       ops' = [ops EXCEPT ![o] =
         [IdleOp EXCEPT !.kind = "query", !.fpc = "read", !.spc = "select",
                        !.fault = fault, !.seen = CompletedAppends]]
  /\ UNCHANGED << variant, time, limiter, cache, store, posted, tasks, calls,
                  AUTHORIZED_STATS_USERS, stats, commandText, parseResult >>

\* loadKudosHistory returned the file's array: recentKudos
FileReadOk(o) ==
  /\ ops[o].fpc = "read"
  /\ ops[o].fault # "read"
  /\ ops' = [ops EXCEPT ![o].fpc = "done",
                        ![o].fileRows =
                           Range(RecentKudos(kudosHistoryFile, clock))]
  /\ UNCHANGED << variant, time, limiter, cache, store, posted, tasks, calls,
                  AUTHORIZED_STATS_USERS, stats, commandText, parseResult >>

\* the read threw: loadKudosHistory returned []
FileReadThrow(o) ==
  /\ ops[o].fpc = "read"
  /\ ops[o].fault = "read"
  /\ ops' = [ops EXCEPT ![o].fpc = "done", ![o].fileRows = {}]
  /\ UNCHANGED << variant, time, limiter, cache, store, posted, tasks, calls,
                  AUTHORIZED_STATS_USERS, stats, commandText, parseResult >>

\* the SELECT returned result.rows
SqlSelectOk(o) ==
  /\ ops[o].spc = "select"
  /\ ops[o].fault # "read"
  /\ ops' = [ops EXCEPT ![o].spc = "done",
                        ![o].sqlRows = KudosStatsRows(kudosTable, clock)]
  /\ UNCHANGED << variant, time, limiter, cache, store, posted, tasks, calls,
                  AUTHORIZED_STATS_USERS, stats, commandText, parseResult >>

\* the SELECT threw: getKudosStats returned []
SqlSelectThrow(o) ==
  /\ ops[o].spc = "select"
  /\ ops[o].fault = "read"
  /\ ops' = [ops EXCEPT ![o].spc = "done", ![o].sqlRows = {}]
  /\ UNCHANGED << variant, time, limiter, cache, store, posted, tasks, calls,
                  AUTHORIZED_STATS_USERS, stats, commandText, parseResult >>

\* both backends start from the same recorded entries
StoreInit ==
  /\ variant = "file"
  /\ clock = StartTime
  /\ ticks = 0
  /\ usersProcessing = {}
  /\ userCooldowns = [u \in {} |-> 0]
  /\ userListCache = << >>
  /\ userListCacheTime = 0
  /\ \E h \in InitialHistories : kudosHistoryFile = h /\ kudosTable = h
  /\ posted = {}
  /\ tasks = [t \in Tasks |-> IdleTask]
  /\ admissions = [u \in Users |-> << >>]
  /\ ops = [o \in OpIds |-> IdleOp]
  /\ calls = << >>
  /\ AUTHORIZED_STATS_USERS = << >>
  /\ stats = << >>
  /\ commandText = << >>
  /\ parseResult = << >>

StoreNext ==
  \/ \E o \in OpIds : StartAppend(o)
  \/ \E o \in OpIds : FileLoadOk(o)
  \/ \E o \in OpIds : FileLoadThrow(o)
  \/ \E o \in OpIds : FileSaveOk(o)
  \/ \E o \in OpIds : FileSaveThrow(o)
  \/ \E o \in OpIds : SqlInsertOk(o)
  \/ \E o \in OpIds : SqlInsertThrow(o)
  \/ \E o \in OpIds : StartQuery(o)
  \/ \E o \in OpIds : FileReadOk(o)
  \/ \E o \in OpIds : FileReadThrow(o)
  \/ \E o \in OpIds : SqlSelectOk(o)
  \/ \E o \in OpIds : SqlSelectThrow(o)

StoreSpec == StoreInit /\ [][StoreNext]_vars

\* no operation has an injected failure
NoFaults == \A o \in OpIds : ops[o].fault = "none"

\* every entry a recordKudos call of this execution made
AppendedEntries ==
  { EntryOf(ops[o].args, clock) :
      o \in {x \in OpIds : ops[x].kind = "append"} }

\* C11 as stated: with no failure injected, a store read that starts after
\* N recordKudos calls have returned gets all N entries (and nothing that
\* was not recorded), from the file and from the table.
C11_Original ==
  NoFaults =>
    \A o \in OpIds :
      (ops[o].kind = "query" /\ ~Running(o)) =>
        /\ ops[o].seen \subseteq ops[o].fileRows
        /\ {Row(e) : e \in ops[o].seen} \subseteq ops[o].sqlRows
        /\ ops[o].fileRows \subseteq AppendedEntries \cup {EdgeEntry}
        /\ ops[o].sqlRows \subseteq
             {Row(e) : e \in AppendedEntries \cup {EdgeEntry}}

\* C12 as stated: in every step, every entry that was in the file or in the
\* table before the step is still in it after the step.
C12_Original ==
  [][/\ \A e \in Range(kudosHistoryFile) : e \in Range(kudosHistoryFile')
     /\ \A e \in Range(kudosTable) : e \in Range(kudosTable')]_vars

\* no operation is between its call and its return
Quiescent == \A o \in OpIds : ~Running(o)

\* C13 as stated: run side by side on the same operations with no failure
\* injected, the file and the table hold the same entries whenever no
\* operation is under way, and a time-filtered read of either returns the
\* same rows.
C13_Original ==
  (NoFaults /\ Quiescent) =>
    /\ Range(kudosHistoryFile) = Range(kudosTable)
    /\ {Row(e) : e \in Range(RecentKudos(kudosHistoryFile, clock))}
         = KudosStatsRows(kudosTable, clock)

\* ------------------------------------------------------------ directory cache

\* getUserList on its own: calls arrive while time passes; a call that finds
\* the cache fresh returns in the step it begins, any other call awaits
\* client.users.list().

\* a call slot with no call in it
IdleCall ==
  [ pc |-> "idle", now |-> 0, cachedAt |-> 0, served |-> "none",
    list |-> << >>, fetched |-> FALSE, after |-> {} ]

\* calls are numbered in order of arrival
CallFree(c) ==
  /\ calls[c].pc = "idle"
  /\ \A c2 \in CallIds : c2 < c => calls[c2].pc # "idle"

\* the calls that have returned or thrown
Returned == {c \in CallIds : calls[c].pc \in {"done", "failed"}}

\* time passes between two steps of the event loop
CacheTick ==
  /\ ticks < MaxCacheTicks
  /\ \E d \in CacheTickSteps : clock' = clock + d
  /\ ticks' = ticks + 1
  /\ UNCHANGED << variant, parts, limiter, cache, store, posted, tasks >>

\* getUserList is called and the cached list is fresh: it is returned
CallCached(c) ==
  /\ CallFree(c)
  /\ CacheFresh(clock)
  /\ calls' = [calls EXCEPT ![c] =
       [@ EXCEPT !.pc = "done", !.now = clock,
                 !.cachedAt = userListCacheTime, !.served = "cache",
                 !.list = userListCache, !.after = Returned]]
  /\ UNCHANGED << variant, time, limiter, cache, store, posted, tasks, ops,
                  AUTHORIZED_STATS_USERS, stats, commandText, parseResult >>

\* getUserList is called and the cache is empty or stale: users.list is
\* called
CallFetch(c) ==
  /\ CallFree(c)
  /\ ~CacheFresh(clock)
  /\ calls' = [calls EXCEPT ![c] =
       [@ EXCEPT !.pc = "fetch", !.now = clock,
                 !.cachedAt = userListCacheTime, !.fetched = TRUE,
                 !.after = Returned]]
  /\ UNCHANGED << variant, time, limiter, cache, store, posted, tasks, ops,
                  AUTHORIZED_STATS_USERS, stats, commandText, parseResult >>

\* the fetched list is returned and the cache keeps the instant it had
CallFetchOkNoStamp(c) ==
  /\ calls[c].pc = "fetch"
  /\ userListCache' = <<Members>>
  /\ calls' = [calls EXCEPT ![c] =
       [@ EXCEPT !.pc = "done", !.served = "fresh", !.list = <<Members>>]]
  /\ UNCHANGED << variant, time, limiter, userListCacheTime, store, posted,
                  tasks, ops, AUTHORIZED_STATS_USERS, stats, commandText,
                  parseResult >>

\* client.users.list() returned: the result is cached with the instant read
\* at the start of the call, and returned
CallFetchOk(c) ==
  /\ calls[c].pc = "fetch"
  /\ userListCache' = <<Members>>
  /\ userListCacheTime' = calls[c].now
  /\ calls' = [calls EXCEPT ![c] =
       [@ EXCEPT !.pc = "done", !.served = "fresh", !.list = <<Members>>]]
  /\ UNCHANGED << variant, time, limiter, store, posted, tasks, ops,
                  AUTHORIZED_STATS_USERS, stats, commandText, parseResult >>

\* client.users.list() threw: getUserList throws, the cache is untouched
CallFetchThrow(c) ==
  /\ calls[c].pc = "fetch"
  /\ calls' = [calls EXCEPT ![c] = [@ EXCEPT !.pc = "failed"]]
  /\ UNCHANGED << variant, time, limiter, cache, store, posted, tasks, ops,
                  AUTHORIZED_STATS_USERS, stats, commandText, parseResult >>

CacheInit ==
  /\ variant \in Variants
  /\ clock = StartTime
  /\ ticks = 0
  /\ usersProcessing = {}
  /\ userCooldowns = [u \in {} |-> 0]
  /\ userListCache = << >>
  /\ userListCacheTime = 0
  /\ kudosHistoryFile = << >>
  /\ kudosTable = << >>
  /\ posted = {}
  /\ tasks = [t \in Tasks |-> IdleTask]
  /\ admissions = [u \in Users |-> << >>]
  /\ ops = << >>
  /\ calls = [c \in CallIds |-> IdleCall]
  /\ AUTHORIZED_STATS_USERS = << >>
  /\ stats = << >>
  /\ commandText = << >>
  /\ parseResult = << >>

CacheNext ==
  \/ CacheTick
  \/ \E c \in CallIds : CallCached(c)
  \/ \E c \in CallIds : CallFetch(c)
  \/ \E c \in CallIds : CallFetchOk(c)
  \/ \E c \in CallIds : CallFetchThrow(c)

CacheSpec == CacheInit /\ [][CacheNext]_vars

\* C14: a call that was served the cached list began less than
\* CACHE_DURATION after the instant recorded with that list; every other call
\* called users.list, and when that returned the call was served its result.
C14_FreshOrFetched ==
  \A c \in CallIds :
    /\ calls[c].served = "cache" =>
         /\ calls[c].now - calls[c].cachedAt < CACHE_DURATION
         /\ ~calls[c].fetched
    /\ (calls[c].pc # "idle" /\ calls[c].served # "cache") =>
         calls[c].fetched
    /\ (calls[c].pc = "done" /\ calls[c].fetched) =>
         /\ calls[c].served = "fresh"
         /\ calls[c].list = <<Members>>

\* a call served from a cache one millisecond short of the window, and
\* a call that found the cache exactly one window old and was served a
\* fresh list
C14_Witness ==
  /\ \E c \in CallIds :
       /\ calls[c].served = "cache"
       /\ calls[c].now - calls[c].cachedAt = CACHE_DURATION - 1
  /\ \E c \in CallIds :
       /\ calls[c].pc = "done"
       /\ calls[c].served = "fresh"
       /\ calls[c].cachedAt # 0
       /\ calls[c].now - calls[c].cachedAt = CACHE_DURATION

\* the number of calls of users.list made by the given calls
Fetches(cs) == Cardinality({c \in cs : calls[c].fetched})

\* C15: when the first call fetched and returned before the second began,
\* and the second began less than CACHE_DURATION after the first call's
\* instant, the two calls made one fetch between them; a third call that
\* begins CACHE_DURATION or more after the first call's instant makes
\* exactly one more.
C15_OneFetchPerWindow ==
  ( /\ calls[1].pc = "done"
    /\ calls[1].served = "fresh"
    /\ calls[2].pc # "idle"
    /\ 1 \in calls[2].after
    /\ calls[2].now - calls[1].now < CACHE_DURATION ) =>
      /\ calls[2].served = "cache"
      /\ Fetches({1, 2}) = 1
      /\ ( /\ calls[3].pc # "idle"
           /\ calls[3].now - calls[1].now >= CACHE_DURATION ) =>
             /\ calls[3].fetched
             /\ Fetches({1, 2, 3}) = 2

\* the second call one millisecond inside the window, the third exactly at
\* its end, its fetch completed
C15_Witness ==
  /\ calls[1].pc = "done"
  /\ calls[1].served = "fresh"
  /\ 1 \in calls[2].after
  /\ calls[2].now - calls[1].now = CACHE_DURATION - 1
  /\ calls[2].served = "cache"
  /\ calls[3].pc = "done"
  /\ calls[3].now - calls[1].now = CACHE_DURATION
  /\ calls[3].served = "fresh"
  /\ Fetches(CallIds) = 2

\* ------------------------------------------------------------ /stats

\* The aggregation of the /stats handler.  giverCounts and receiverCounts
\* are objects keyed by identifier; an object is modelled by its own
\* properties in creation order, [key, count] pairs.

\* identifiers that are canonical array indices, and their numeric value
IndexKeys == {"7", "12"}
IndexValue(id) == IF id = "7" THEN 7 ELSE 12

\* whether the property name is an integer index, which an object lists
\* before its other properties
IsIndex(key) == ~key.sfx /\ key.id \in IndexKeys

\* counts[key] = counts[key] || 1
BumpOnce(counts, key) ==
  IF \E i \in 1..Len(counts) : counts[i].key = key THEN counts
  ELSE Append(counts, [key |-> key, count |-> 1])

\* counts[key] = (counts[key] || 0) + 1
Bump(counts, key) ==
  LET at == {i \in 1..Len(counts) : counts[i].key = key}
  IN IF at = {} THEN Append(counts, [key |-> key, count |-> 1])
     ELSE [i \in 1..Len(counts) |->
             IF i \in at THEN [counts[i] EXCEPT !.count = @ + 1]
             ELSE counts[i]]

\* the sender of every scanned entry, in scan order
SenderKeys(recent) == [i \in 1..Len(recent) |-> BareId(recent[i].sender_id)]

\* the recipients of every scanned entry, in scan order (the nested forEach)
RecipientKeys(recent) ==
  LET flat[n \in 0..Len(recent)] ==
        IF n = 0 THEN << >> ELSE flat[n - 1] \o recent[n].recipient_ids
  IN flat[Len(recent)]

\* the object after the forEach has counted the keys one by one
CountKeys(keys) ==
  LET acc[n \in 0..Len(keys)] ==
        IF n = 0 THEN << >> ELSE Bump(acc[n - 1], keys[n])
  IN acc[Len(keys)]

\* Object.entries: integer indices in ascending numeric order, then the
\* other properties in creation order
ObjectEntries(counts) ==
  LET idx == {i \in 1..Len(counts) : IsIndex(counts[i].key)}
      before(i, j) ==
        IF i \in idx /\ j \in idx
        THEN IndexValue(counts[i].key.id) < IndexValue(counts[j].key.id)
        ELSE IF i \in idx THEN j \notin idx
        ELSE j \notin idx /\ i < j
      at(r) == CHOOSE i \in 1..Len(counts) :
                 Cardinality({j \in 1..Len(counts) : before(j, i)}) = r - 1
  IN [r \in 1..Len(counts) |-> counts[at(r)]]

\* .sort((a, b) => b[1] - a[1]): descending by count, stable
SortByCount(entries) ==
  LET before(i, j) ==
        \/ entries[i].count > entries[j].count
        \/ entries[i].count = entries[j].count /\ i < j
      at(r) == CHOOSE i \in 1..Len(entries) :
                 Cardinality({j \in 1..Len(entries) : before(j, i)}) = r - 1
  IN [r \in 1..Len(entries) |-> entries[at(r)]]

\* .slice(0, 4)
SliceFour(entries) ==
  SubSeq(entries, 1, IF Len(entries) < 4 THEN Len(entries) ELSE 4)

\* .slice(0, 5)
SliceFive(entries) ==
  SubSeq(entries, 1, IF Len(entries) < 5 THEN Len(entries) ELSE 5)

\* Object.entries(counts).sort(...).slice(0, 5)
TopOf(counts) == SliceFive(SortByCount(ObjectEntries(counts)))

\* the workspace members users.info knows
Workspace == {"U1", "U2", "U3", "U4", "U5", "U6", "U7"}

\* userInfo.user.real_name || userInfo.user.name
RealName(key) == [k |-> "N", v |-> key.id, sfx |-> FALSE]

\* the allow-lists the process may be configured with
AllowLists == { << >>, <<"U1">>, <<"U1", "U2">> }

\* the sender and recipients of recorded kudos: a plain one, one naming a
\* user twice, one with a display-name suffix, one naming an identifier
\* that is a number
EventShapes ==
  { [s |-> "U1", r |-> <<BareId("U2")>>],
    [s |-> "U2", r |-> <<BareId("U1"), BareId("U1")>>],
    [s |-> "U1", r |-> <<BareId("U2"), StripMention(MS("U1"))>>],
    [s |-> "U2", r |-> <<BareId("U3"), BareId("7")>>] }

\* an entry recorded at the given instant
Event(s, r, at) ==
  EntryOf([ sender_id |-> s, recipient_ids |-> r, message |-> <<WD("kudos")>>,
            channel_id |-> "C1" ], at)

\* every history of up to MaxEvents recent entries, one millisecond apart
GeneratedHistories ==
  UNION { { [i \in 1..n |-> Event(f[i].s, f[i].r, StartTime - n + i)] :
              f \in [1..n -> EventShapes] } : n \in 0..MaxEvents }

\* seven givers and seven receivers with ties; the most frequent of each is
\* not the first recorded
BusyHistory ==
  << Event("U1", <<BareId("U2")>>, StartTime - 20),
     Event("U2", <<BareId("U3"), BareId("U4")>>, StartTime - 19),
     Event("U3", <<BareId("U4")>>, StartTime - 18),
     Event("U4", <<BareId("U5"), BareId("U4")>>, StartTime - 17),
     Event("U3", <<BareId("U6")>>, StartTime - 16),
     Event("U5", <<BareId("U7")>>, StartTime - 15),
     Event("U2", <<BareId("U1")>>, StartTime - 14),
     Event("U6", <<BareId("U3")>>, StartTime - 13),
     Event("U7", <<BareId("U6")>>, StartTime - 12),
     Event("U3", <<BareId("U4")>>, StartTime - 11),
     Event("U4", <<BareId("12"), BareId("7")>>, StartTime - 10) >>

\* entries outside and on the edge of the window, and two entries recorded
\* in the same millisecond
AgedHistory ==
  << OldEntry, EdgeEntry, Event("U2", <<BareId("U1")>>, StartTime - 1),
     Event("U1", <<BareId("U2")>>, StartTime - 1) >>

StatsHistories ==
  GeneratedHistories \cup { BusyHistory, AgedHistory, <<OldEntry>> }

\* getKudosStats: the rows of the window ORDER BY timestamp DESC; rows of
\* equal timestamp come in any order
KudosStats(table, now) ==
  LET rows == SelectSeq(table, LAMBDA e : e.timestamp >= ThreeMonthsAgo(now))
      latest(S) == {i \in S : \A j \in S :
                      rows[j].timestamp <= rows[i].timestamp}
      ord[S \in SUBSET (1..Len(rows))] ==
        IF S = {} THEN { << >> }
        ELSE UNION { { <<Row(rows[i])>> \o rest : rest \in ord[S \ {i}] } :
                       i \in latest(S) }
  IN ord[1..Len(rows)]

\* the /stats handler keeps all its state in locals and only reads the
\* store: one invocation is followed
IdleStats ==
  [ pc |-> "idle", user |-> "U1", read |-> FALSE, recent |-> << >>,
    giverCounts |-> << >>, receiverCounts |-> << >>, topGivers |-> << >>,
    topReceivers |-> << >>, userCache |-> {}, names |-> << >>,
    pending |-> "none", ctx |-> "none", replies |-> << >>,
    infoFailures |-> 0, unreadable |-> FALSE, failed |-> {} ]

\* a reply of the /stats handler
StatsReply(kind, givers, receivers, total) ==
  [ kind |-> kind, response_type |-> "ephemeral", givers |-> givers,
    receivers |-> receivers, total |-> total ]

\* an empty allow-list admits nobody
RefusedWhenEmpty(u) == u \notin Range(AUTHORIZED_STATS_USERS)

\* AUTHORIZED_STATS_USERS.length > 0 && !AUTHORIZED_STATS_USERS.includes(u)
Refused(u) ==
  /\ Len(AUTHORIZED_STATS_USERS) > 0
  /\ u \notin Range(AUTHORIZED_STATS_USERS)

\* the leaderboard text: a line per top giver and per top receiver with the
\* name found for it, and the total
Leaderboard(st) ==
  LET g == Len(st.topGivers)
      r == Len(st.topReceivers)
  IN StatsReply("leaderboard",
       [i \in 1..g |-> [name |-> st.names[i],
                        count |-> st.topGivers[i].count]],
       [i \in 1..r |-> [name |-> st.names[g + i],
                        count |-> st.topReceivers[i].count]],
       Len(st.recent))

\* the two formatting loops from the current position: getUserName answers
\* from userCache until an identifier is not in it, which users.info is
\* asked for; after the last line the reply is sent
Resolve(st) ==
  LET items == st.topGivers \o st.topReceivers
      done == Len(st.names)
      miss == {i \in (done + 1)..Len(items) :
                 items[i].key \notin st.userCache}
      stop == IF miss = {} THEN Len(items) + 1
              ELSE CHOOSE i \in miss : \A j \in miss : i <= j
      named == [st EXCEPT !.names =
                  @ \o [j \in 1..(stop - 1 - done) |->
                          RealName(items[done + j].key)]]
  IN IF stop > Len(items)
     THEN [named EXCEPT !.pc = "respond", !.ctx = "try",
                        !.pending = "leaderboard"]
     ELSE [named EXCEPT !.pc = "info"]

\* the identifier users.info is being asked for
Asked(st) == (st.topGivers \o st.topReceivers)[Len(st.names) + 1].key

\* the try block once the entries of the window are at hand
AfterStatsLoad(st, recent) ==
  IF Len(recent) = 0
  THEN [st EXCEPT !.pc = "respond", !.ctx = "try", !.pending = "empty"]
  ELSE LET givers == CountKeys(SenderKeys(recent))
           receivers == CountKeys(RecipientKeys(recent))
       IN Resolve([st EXCEPT !.recent = recent,
                             !.giverCounts = givers,
                             !.receiverCounts = receivers,
                             !.topGivers = TopOf(givers),
                             !.topReceivers = TopOf(receivers)])

\* the reply under way
PendingReply(st) ==
  IF st.pending = "leaderboard" THEN Leaderboard(st)
  ELSE StatsReply(st.pending, << >>, << >>, 0)

\* /stats from a user the allow-list refuses: the denial is sent
StatsDenied ==
  /\ stats.pc = "idle"
  /\ \E u \in Users :
       /\ Refused(u)
       /\ stats' = [stats EXCEPT !.pc = "respond", !.user = u,
                                 !.ctx = "top", !.pending = "denied"]
  /\ UNCHANGED << variant, time, limiter, cache, store, posted, tasks, ops,
                  calls, AUTHORIZED_STATS_USERS, commandText, parseResult >>

\* /stats from any other user: the store is asked for its entries
StatsAdmitted ==
  /\ stats.pc = "idle"
  /\ \E u \in Users :
       /\ ~Refused(u)
       /\ stats' = [stats EXCEPT !.pc = "load", !.user = u, !.read = TRUE]
  /\ UNCHANGED << variant, time, limiter, cache, store, posted, tasks, ops,
                  calls, AUTHORIZED_STATS_USERS, commandText, parseResult >>

\* loadKudosHistory returned the file's entries; those of the last three
\* months are kept
StatsLoadOk ==
  /\ variant = "file"
  /\ stats.pc = "load"
  /\ stats' = AfterStatsLoad(stats, RecentKudos(kudosHistoryFile, clock))
  /\ UNCHANGED << variant, time, limiter, cache, store, posted, tasks, ops,
                  calls, AUTHORIZED_STATS_USERS, commandText, parseResult >>

\* the read error reaches the catch of the handler
StatsLoadThrowPropagates ==
  /\ variant = "file"
  /\ stats.pc = "load"
  /\ stats' = [stats EXCEPT !.pc = "respond", !.ctx = "catch",
                            !.pending = "error", !.unreadable = TRUE]
  /\ UNCHANGED << variant, time, limiter, cache, store, posted, tasks, ops,
                  calls, AUTHORIZED_STATS_USERS, commandText, parseResult >>

\* the file is missing or unreadable: loadKudosHistory returns []
StatsLoadThrow ==
  /\ variant = "file"
  /\ stats.pc = "load"
  /\ stats' = AfterStatsLoad([stats EXCEPT !.unreadable = TRUE], << >>)
  /\ UNCHANGED << variant, time, limiter, cache, store, posted, tasks, ops,
                  calls, AUTHORIZED_STATS_USERS, commandText, parseResult >>

\* getKudosStats returned the rows of the last three months
StatsSelectOk ==
  /\ variant = "sql"
  /\ stats.pc = "load"
  /\ \E rows \in KudosStats(kudosTable, clock) :
       stats' = AfterStatsLoad(stats, rows)
  /\ UNCHANGED << variant, time, limiter, cache, store, posted, tasks, ops,
                  calls, AUTHORIZED_STATS_USERS, commandText, parseResult >>

\* the query failed: getKudosStats returns []
StatsSelectThrow ==
  /\ variant = "sql"
  /\ stats.pc = "load"
  /\ stats' = AfterStatsLoad([stats EXCEPT !.unreadable = TRUE], << >>)
  /\ UNCHANGED << variant, time, limiter, cache, store, posted, tasks, ops,
                  calls, AUTHORIZED_STATS_USERS, commandText, parseResult >>

\* users.info returned: the name is cached and the loops go on
StatsInfoOk ==
  /\ stats.pc = "info"
  /\ ~Asked(stats).sfx
  /\ Asked(stats).id \in Workspace
  /\ stats' = Resolve([stats EXCEPT
       !.userCache = @ \cup {Asked(stats)},
       !.names = Append(@, RealName(Asked(stats)))])
  /\ UNCHANGED << variant, time, limiter, cache, store, posted, tasks, ops,
                  calls, AUTHORIZED_STATS_USERS, commandText, parseResult >>

\* users.info threw (always for an identifier that is no member's): the
\* mention `<@${userId}>` stands for the name, nothing is cached
StatsInfoThrow ==
  /\ stats.pc = "info"
  /\ LET known == ~Asked(stats).sfx /\ Asked(stats).id \in Workspace
     IN /\ known => stats.infoFailures < MaxInfoFailures
        /\ stats' = Resolve([stats EXCEPT
             !.names = Append(@, MentionOf(Asked(stats))),
             !.failed = @ \cup {"info"},
             !.infoFailures = IF known THEN @ + 1 ELSE @])
  /\ UNCHANGED << variant, time, limiter, cache, store, posted, tasks, ops,
                  calls, AUTHORIZED_STATS_USERS, commandText, parseResult >>

\* respond returned: the reply is with the requester
StatsRespondOk ==
  /\ stats.pc = "respond"
  /\ stats' = [stats EXCEPT !.pc = "done",
                            !.replies = Append(@, PendingReply(stats))]
  /\ UNCHANGED << variant, time, limiter, cache, store, posted, tasks, ops,
                  calls, AUTHORIZED_STATS_USERS, commandText, parseResult >>

\* respond threw: inside the try block the catch sends the generic error
\* reply; anywhere else the handler throws
StatsRespondThrow ==
  /\ stats.pc = "respond"
  /\ stats' = IF stats.ctx = "try"
              THEN [stats EXCEPT !.ctx = "catch", !.pending = "error",
                                 !.failed = @ \cup {"reply"}]
              ELSE [stats EXCEPT !.pc = "threw",
                                 !.failed = @ \cup {"reply"}]
  /\ UNCHANGED << variant, time, limiter, cache, store, posted, tasks, ops,
                  calls, AUTHORIZED_STATS_USERS, commandText, parseResult >>

StatsInit ==
  /\ variant \in Variants
  /\ clock = StartTime
  /\ ticks = 0
  /\ usersProcessing = {}
  /\ userCooldowns = [u \in {} |-> 0]
  /\ userListCache = << >>
  /\ userListCacheTime = 0
  /\ \E h \in StatsHistories : kudosHistoryFile = h /\ kudosTable = h
  /\ posted = {}
  /\ tasks = [t \in Tasks |-> IdleTask]
  /\ admissions = [u \in Users |-> << >>]
  /\ ops = << >>
  /\ calls = << >>
  /\ AUTHORIZED_STATS_USERS \in AllowLists
  /\ stats = IdleStats
  /\ commandText = << >>
  /\ parseResult = << >>

StatsNext ==
  \/ StatsDenied
  \/ StatsAdmitted
  \/ StatsLoadOk
  \/ StatsLoadThrow
  \/ StatsSelectOk
  \/ StatsSelectThrow
  \/ StatsInfoOk
  \/ StatsInfoThrow
  \/ StatsRespondOk
  \/ StatsRespondThrow

StatsSpec == StatsInit /\ [][StatsNext]_vars

\* C16: a requester outside a non-empty allow-list gets the denial and
\* nothing else, and the store is not read for them; with an empty
\* allow-list, or for a requester in it, no denial is sent and the store is
\* read; every reply, sent or under way, is ephemeral.
C16_AllowList ==
  LET outside == /\ AUTHORIZED_STATS_USERS # << >>
                 /\ \A i \in DOMAIN AUTHORIZED_STATS_USERS :
                      AUTHORIZED_STATS_USERS[i] # stats.user
      kinds == {stats.replies[i].kind : i \in DOMAIN stats.replies}
                 \cup ({stats.pending} \ {"none"})
  IN stats.pc # "idle" =>
       /\ outside => /\ ~stats.read
                     /\ kinds = {"denied"}
                     /\ stats.pc = "done" => Len(stats.replies) = 1
       /\ ~outside => /\ stats.read
                      /\ "denied" \notin kinds
       /\ \A i \in DOMAIN stats.replies :
            stats.replies[i].response_type = "ephemeral"
       /\ stats.pc = "respond" =>
            PendingReply(stats).response_type = "ephemeral"

\* U2 asked while only U1 was allowed and has the denial
C16_Witness ==
  /\ AUTHORIZED_STATS_USERS = <<"U1">>
  /\ stats.user = "U2"
  /\ stats.pc = "done"
  /\ ~stats.read
  /\ Len(stats.replies) = 1
  /\ stats.replies[1].kind = "denied"
  /\ kudosHistoryFile # << >>

\* C17: the giver count of an identifier is the number of scanned events
\* it sent, its receiver count the number of its occurrences in their
\* recipient lists; the giver counts sum to the number of events, which is
\* the reported total, and the receiver counts to the total length of the
\* recipient lists.
C17_Counts ==
  LET recent == stats.recent
      slots == UNION { {<<i, j>> : j \in DOMAIN recent[i].recipient_ids} :
                         i \in 1..Len(recent) }
      sum(counts) ==
        LET acc[n \in 0..Len(counts)] ==
              IF n = 0 THEN 0 ELSE acc[n - 1] + counts[n].count
        IN acc[Len(counts)]
      one(counts) ==
        \A i, j \in 1..Len(counts) : counts[i].key = counts[j].key => i = j
  IN Len(recent) > 0 =>
       /\ one(stats.giverCounts)
       /\ one(stats.receiverCounts)
       /\ \A i \in 1..Len(recent) :
            \E g \in 1..Len(stats.giverCounts) :
              stats.giverCounts[g].key.id = recent[i].sender_id
       /\ \A g \in 1..Len(stats.giverCounts) :
            stats.giverCounts[g].count =
              Cardinality({i \in 1..Len(recent) :
                 recent[i].sender_id = stats.giverCounts[g].key.id})
       /\ \A s \in slots :
            \E r \in 1..Len(stats.receiverCounts) :
              stats.receiverCounts[r].key = recent[s[1]].recipient_ids[s[2]]
       /\ \A r \in 1..Len(stats.receiverCounts) :
            stats.receiverCounts[r].count =
              Cardinality({s \in slots :
                 recent[s[1]].recipient_ids[s[2]]
                   = stats.receiverCounts[r].key})
       /\ sum(stats.giverCounts) = Len(recent)
       /\ sum(stats.receiverCounts) = Cardinality(slots)
       /\ \A i \in DOMAIN stats.replies :
            stats.replies[i].kind = "leaderboard" =>
              stats.replies[i].total = Len(recent)

\* a leaderboard sent for three events, one of which names a recipient
\* twice
C17_Witness ==
  /\ stats.pc = "done"
  /\ Len(stats.recent) = 3
  /\ \E i \in 1..3 : stats.recent[i].recipient_ids
                       = <<BareId("U1"), BareId("U1")>>
  /\ \E r \in 1..Len(stats.receiverCounts) :
       /\ stats.receiverCounts[r].key = BareId("U1")
       /\ stats.receiverCounts[r].count >= 3
  /\ Len(stats.replies) = 1
  /\ stats.replies[1].kind = "leaderboard"
  /\ stats.replies[1].total = 3

\* C18 as stated: each leaderboard has min(5, number of distinct
\* identifiers) entries in non-increasing order of count, no identifier left
\* out has a greater count than one listed, a unique maximum is listed
\* first, and identifiers of equal count are listed in the order in which
\* the scan first met them.
C18_Original ==
  LET first(keys, k) == CHOOSE i \in 1..Len(keys) :
                          keys[i] = k /\ \A j \in 1..(i - 1) : keys[j] # k
      board(top, counts, keys) ==
        LET distinct == {keys[i] : i \in 1..Len(keys)}
            listed == {top[i].key : i \in 1..Len(top)}
        IN /\ Len(top) = IF Cardinality(distinct) < 5
                         THEN Cardinality(distinct) ELSE 5
           /\ Cardinality(listed) = Len(top)
           /\ \A i \in 1..Len(top) : \E c \in 1..Len(counts) : top[i] = counts[c]
           /\ \A i, j \in 1..Len(top) : i < j => top[i].count >= top[j].count
           /\ \A c \in 1..Len(counts) :
                counts[c].key \notin listed =>
                  \A i \in 1..Len(top) : top[i].count >= counts[c].count
           /\ \A c \in 1..Len(counts) :
                (\A d \in 1..Len(counts) :
                   d # c => counts[d].count < counts[c].count)
                  => top[1] = counts[c]
           /\ \A i, j \in 1..Len(top) :
                (i < j /\ top[i].count = top[j].count) =>
                  first(keys, top[i].key) < first(keys, top[j].key)
  IN Len(stats.recent) > 0 =>
       /\ board(stats.topGivers, stats.giverCounts, SenderKeys(stats.recent))
       /\ board(stats.topReceivers, stats.receiverCounts,
                RecipientKeys(stats.recent))

\* C18, amended: as stated, except that among identifiers of equal count
\* those that are array indices are listed first, in ascending numeric
\* order, and the others after them in the order in which the scan first
\* met them; the reply has one line per entry, with its count.
C18_TopFive ==
  LET first(keys, k) == CHOOSE i \in 1..Len(keys) :
                          keys[i] = k /\ \A j \in 1..(i - 1) : keys[j] # k
      numeric(k) == ~k.sfx /\ k.id \in {"7", "12"}
      value(k) == IF k.id = "7" THEN 7 ELSE 12
      board(top, counts, keys) ==
        LET distinct == {keys[i] : i \in 1..Len(keys)}
            listed == {top[i].key : i \in 1..Len(top)}
        IN /\ Len(top) = IF Cardinality(distinct) < 5
                         THEN Cardinality(distinct) ELSE 5
           /\ Cardinality(listed) = Len(top)
           /\ \A i \in 1..Len(top) : \E c \in 1..Len(counts) : top[i] = counts[c]
           /\ \A i, j \in 1..Len(top) : i < j => top[i].count >= top[j].count
           /\ \A c \in 1..Len(counts) :
                counts[c].key \notin listed =>
                  \A i \in 1..Len(top) : top[i].count >= counts[c].count
           /\ \A c \in 1..Len(counts) :
                (\A d \in 1..Len(counts) :
                   d # c => counts[d].count < counts[c].count)
                  => top[1] = counts[c]
           /\ \A i, j \in 1..Len(top) :
                (i < j /\ top[i].count = top[j].count) =>
                  IF numeric(top[i].key) /\ numeric(top[j].key)
                  THEN value(top[i].key) < value(top[j].key)
                  ELSE /\ ~numeric(top[j].key)
                       /\ ~numeric(top[i].key) =>
                            first(keys, top[i].key) < first(keys, top[j].key)
      lines(text, top) ==
        /\ Len(text) = Len(top)
        /\ \A i \in 1..Len(top) : text[i].count = top[i].count
  IN Len(stats.recent) > 0 =>
       /\ board(stats.topGivers, stats.giverCounts, SenderKeys(stats.recent))
       /\ board(stats.topReceivers, stats.receiverCounts,
                RecipientKeys(stats.recent))
       /\ \A i \in DOMAIN stats.replies :
            stats.replies[i].kind = "leaderboard" =>
              /\ lines(stats.replies[i].givers, stats.topGivers)
              /\ lines(stats.replies[i].receivers, stats.topReceivers)

\* a leaderboard of five out of seven givers: the unique maximum, recorded
\* third, comes first, then two of equal count in the order first met
C18_Witness ==
  /\ stats.pc = "done"
  /\ Len(stats.giverCounts) = 7
  /\ Len(stats.replies) = 1
  /\ stats.replies[1].kind = "leaderboard"
  /\ Len(stats.replies[1].givers) = 5
  /\ stats.topGivers[1] = [key |-> BareId("U3"), count |-> 3]
  /\ stats.topGivers[2].count = 2
  /\ stats.topGivers[3].count = 2
  /\ Len(stats.topReceivers) = 5
  /\ \E i \in 1..5 : stats.topReceivers[i].key = BareId("7")

\* C19: for an admitted request, when the store has no entry in the window
\* or cannot be read, the reply sent first is the empty-state message, no
\* leaderboard is sent, and the error reply is sent only when sending the
\* empty-state message failed; with no failure of respond the handler ends
\* with that one reply.
C19_EmptyState ==
  LET held == IF variant = "file" THEN kudosHistoryFile ELSE kudosTable
      empty == \/ stats.unreadable
               \/ \A i \in 1..Len(held) :
                    held[i].timestamp < clock - ThreeMonths
      kinds == {stats.replies[i].kind : i \in DOMAIN stats.replies}
  IN (stats.read /\ stats.pc \notin {"idle", "load"} /\ empty) =>
       /\ stats.pending # "leaderboard"
       /\ "leaderboard" \notin kinds
       /\ "reply" \notin stats.failed =>
            /\ stats.pending = "empty"
            /\ stats.pc \in {"respond", "done"}
            /\ stats.pc = "done" => Len(stats.replies) = 1
                                    /\ stats.replies[1].kind = "empty"
       /\ "info" \notin stats.failed

\* the file holds recent entries but could not be read, and the requester
\* has the empty-state message
C19_Witness ==
  /\ variant = "file"
  /\ stats.unreadable
  /\ \E i \in 1..Len(kudosHistoryFile) :
       kudosHistoryFile[i].timestamp >= clock - ThreeMonths
  /\ stats.pc = "done"
  /\ Len(stats.replies) = 1
  /\ stats.replies[1].kind = "empty"

\* ------------------------------------------------------------ parser

\* The parsing of handleTextKudosCommand on its own, on every command text
\* of up to MaxTextLen tokens.

\* the tokens a command text is made of
Tokens == { MT("U1"), MS("U1"), MT("U2"), PT("bob"), WD("thanks"), SP }

\* every command text of up to MaxTextLen tokens
AllTexts == UNION { [1..n -> Tokens] : n \in 0..MaxTextLen }

\* the try block up to kudosMessage, for the platform form and the plain
\* form
Parse ==
  /\ parseResult = << >>
  /\ parseResult' = <<ParseCommand(commandText)>>
  /\ UNCHANGED << variant, time, limiter, cache, store, posted, tasks, ops,
                  calls, AUTHORIZED_STATS_USERS, stats, commandText >>

ParserInit ==
  /\ variant \in Variants
  /\ clock = StartTime
  /\ ticks = 0
  /\ usersProcessing = {}
  /\ userCooldowns = [u \in {} |-> 0]
  /\ userListCache = << >>
  /\ userListCacheTime = 0
  /\ kudosHistoryFile = << >>
  /\ kudosTable = << >>
  /\ posted = {}
  /\ tasks = [t \in Tasks |-> IdleTask]
  /\ admissions = [u \in Users |-> << >>]
  /\ ops = << >>
  /\ calls = << >>
  /\ AUTHORIZED_STATS_USERS = << >>
  /\ stats = << >>
  /\ commandText \in AllTexts
  /\ parseResult = << >>

ParserSpec == ParserInit /\ [][Parse]_vars

\* C20: for a text with k >= 1 platform mentions and something other than
\* whitespace after the last of them, the recipients are the k mention
\* tokens in order of appearance, and the message is the text after the last
\* mention without its leading and trailing whitespace.
C20_ProperParse ==
  LET text == commandText
      at == {i \in 1..Len(text) : text[i].k = "M"}
      k == Cardinality(at)
      last == CHOOSE i \in at : \A j \in at : j <= i
      solid == {i \in (last + 1)..Len(text) : text[i].k # "S"}
      from == CHOOSE i \in solid : \A j \in solid : i <= j
      to == CHOOSE i \in solid : \A j \in solid : j <= i
      pos(n) == CHOOSE i \in at : Cardinality({j \in at : j < i}) = n - 1
  IN (parseResult # << >> /\ k >= 1 /\ solid # {}) =>
       /\ parseResult[1].form = "proper"
       /\ Len(parseResult[1].recips) = k
       /\ \A n \in 1..k : parseResult[1].recips[n] = text[pos(n)]
       /\ parseResult[1].msg = [i \in 1..(to - from + 1) |-> text[from + i - 1]]

\* the same mention twice, the message after the second
C20_Witness ==
  /\ commandText = <<SP, MT("U1"), MT("U1"), WD("thanks")>>
  /\ parseResult # << >>
  /\ parseResult[1].recips = <<MT("U1"), MT("U1")>>
  /\ parseResult[1].msg = <<WD("thanks")>>

\* ------------------------------------------------------------ quick-send, ctd.

\* C21 as stated: a quick-send whose non-empty text has no mention of either
\* form is answered "no recipients"; the directory is not asked, nothing is
\* announced and nothing is stored.
C21_Original ==
  [][\A t \in Tasks :
       (/\ Arrives(t)
        /\ tasks'[t].kind = "text"
        /\ \A i \in 1..Len(tasks'[t].text) :
             tasks'[t].text[i].k \notin {"M", "P"}) =>
          /\ tasks'[t].pc = "respond"
          /\ tasks'[t].reply = "noRecipients"
          /\ tasks'[t].posts = 0 /\ tasks'[t].appends = 0
          /\ tasks'[t].glNow = 0
          /\ UNCHANGED << cache, store, posted >>]_vars

\* C22 as stated: the recipient_ids a quick-send stores are the bare
\* identifiers of its mention tokens, one per token in order, a display-name
\* suffix dropped; so every stored identifier is bare, whichever flow
\* stored it.
C22_Original ==
  /\ \A t \in Tasks :
       (tasks[t].kind = "text" /\ tasks[t].pc = "save") =>
         tasks[t].history[Len(tasks[t].history)].recipient_ids =
           [i \in 1..Len(tasks[t].recips) |-> BareId(tasks[t].recips[i].v)]
  /\ \A e \in StoredEntries :
       \A i \in 1..Len(e.recipient_ids) : ~e.recipient_ids[i].sfx

\* ------------------------------------------------------------ formatter

\* "Format recipients" in both flows, on its own: the quick-send formats the
\* mentions its parsing and lookup produced, the form the mentions made of
\* selected_users.  parseResult holds the flow, the recipients and the text.

\* the quick-send reached "Format recipients" with the recipients of
\* commandText
FormatText ==
  /\ parseResult = << >>
  /\ LET parsed == ParseCommand(commandText)
         found == ResolvePlain(Members, parsed.names)
         recips == IF parsed.form = "proper" THEN parsed.recips
                   ELSE found.recips
     IN /\ parsed.form \in {"proper", "plain"}
        /\ parsed.form = "plain" => found.ok
        /\ Len(recips) > 0
        /\ parsed.msg # << >>
        /\ parseResult' = << [ flow |-> "text", recips |-> recips,
                               text |-> FormatRecipients(recips) ] >>
  /\ UNCHANGED << variant, time, limiter, cache, store, posted, tasks, ops,
                  calls, AUTHORIZED_STATS_USERS, stats, commandText >>

\* the command had no text and its form was submitted; it reached "Format
\* recipients": recipients.map(id => `<@${id}>`), over the selections a form
\* can be submitted with
FormatForm ==
  /\ parseResult = << >>
  /\ Trim(commandText) = << >>
  /\ \E ids \in UNION { [1..n -> {"U1", "U2", "U3"}] : n \in 1..MaxRecipients } :
       LET recips == [i \in 1..Len(ids) |-> MT(ids[i])]
       IN parseResult' = << [ flow |-> "form", recips |-> recips,
                              text |-> FormatRecipients(recips) ] >>
  /\ UNCHANGED << variant, time, limiter, cache, store, posted, tasks, ops,
                  calls, AUTHORIZED_STATS_USERS, stats, commandText >>

FormatSpec == ParserInit /\ [][FormatText \/ FormatForm]_vars

\* C23: the recipient text is the one recipient; or the two with " and "
\* between them; or, for three or more, the recipients in order with ", "
\* between them and ", and " before the last.
C23_Format ==
  parseResult # << >> =>
    LET r == parseResult[1].recips
        x == parseResult[1].text
        n == Len(r)
    IN /\ n >= 1
       /\ n = 1 => x = <<r[1]>>
       /\ n = 2 => x = <<r[1], TX(" and "), r[2]>>
       /\ n >= 3 =>
            /\ Len(x) = 2 * n - 1
            /\ \A i \in 1..n : x[2 * i - 1] = r[i]
            /\ \A i \in 1..(n - 2) : x[2 * i] = TX(", ")
            /\ x[2 * n - 2] = TX(", and ")

\* a quick-send naming three recipients, one of them twice
C23_Witness ==
  /\ parseResult # << >>
  /\ parseResult[1].flow = "text"
  /\ parseResult[1].recips = <<MT("U1"), MS("U1"), MT("U2")>>
  /\ parseResult[1].text =
       <<MT("U1"), TX(", "), MS("U1"), TX(", and "), MT("U2")>>

\* C24 as stated: a quick-send whose text fails validation (no mention, no
\* message, a name that is not found) was not admitted by the rate
\* limiter: the step in which it arrives leaves usersProcessing and
\* userCooldowns as they were.
C24_Original ==
  [][\A t \in Tasks :
       (tasks'[t].kind = "text" /\ tasks'[t].invalid # "none") =>
          /\ tasks'[t].outcome # "admitted"
          /\ Arrives(t) => UNCHANGED limiter]_vars

\* C25: a request that arrives while its user is mid-submission, or inside
\* the user's cooldown, leaves usersProcessing and userCooldowns as they
\* were, in the step it arrives and in every later step it takes (its
\* reply returning or throwing); the user of an active submission stays in
\* usersProcessing.
C25_RejectionFrame ==
  [][\A t \in Tasks :
       LET u == tasks'[t].user
           turnedAway ==
             \/ /\ Arrives(t)
                /\ u \in usersProcessing \/ InCooldown(u)
             \/ /\ tasks[t].outcome \in {"busy", "cooling"}
                /\ tasks'[t] # tasks[t]
       IN turnedAway =>
            /\ tasks'[t].outcome \in {"busy", "cooling"}
            /\ usersProcessing' = usersProcessing
            /\ userCooldowns' = userCooldowns
            /\ \A v \in Users : ActiveFor(v) # {} => v \in usersProcessing']_vars

\* a quick-send was told "busy" and has ended, while the submission it ran
\* into is still in flight with its user marked
C25_Witness ==
  \E t1, t2 \in Tasks :
    /\ Active(t1)
    /\ tasks[t2].user = tasks[t1].user
    /\ tasks[t2].pc = "done" /\ tasks[t2].outcome = "busy"
    /\ tasks[t2].replies = <<[msg |-> "busy", secs |-> 0, ok |-> TRUE]>>
    /\ tasks[t1].user \in usersProcessing
    /\ userCooldowns[tasks[t1].user] = LastAdmission(tasks[t1].user)

\* C26: an invocation issues at most one public post and at most one
\* recordKudos call, whatever fails; one turned away by the rate limiter or
\* by validation issues neither.
C26_AtMostOnce ==
  \A t \in Tasks :
    /\ tasks[t].posts <= 1
    /\ tasks[t].appends <= 1
    /\ tasks[t].outcome \in {"busy", "cooling"} =>
         (tasks[t].posts = 0 /\ tasks[t].appends = 0)
    /\ tasks[t].invalid # "none" =>
         (tasks[t].posts = 0 /\ tasks[t].appends = 0)
    /\ tasks[t].outcome = "none" =>
         (tasks[t].posts = 0 /\ tasks[t].appends = 0)
    /\ Cardinality({a \in posted : a.from = tasks[t].user})
         <= Cardinality({t2 \in Tasks : /\ tasks[t2].user = tasks[t].user
                                        /\ tasks[t2].announced})

\* a form submission whose post failed and a quick-send whose store write
\* failed have both ended, each after one attempt
C26_Witness ==
  \E t1, t2 \in Tasks :
    /\ tasks[t1].pc = "done" /\ tasks[t1].kind = "modal"
    /\ tasks[t1].failed = {"post"}
    /\ tasks[t1].posts = 1 /\ tasks[t1].appends = 0
    /\ tasks[t2].pc = "done" /\ tasks[t2].kind = "text"
    /\ tasks[t2].failed = {"store"}
    /\ tasks[t2].posts = 1 /\ tasks[t2].appends = 1

\* C27 as stated: the instant recorded with the cached member list never
\* goes back, whatever submissions refresh the cache concurrently.
C27_Original == [][userListCacheTime' >= userListCacheTime]_vars

====
